---------------------------- MODULE Spec2Model ----------------------------
(***************************************************************************)
(* A model of cabide-ai's engine (src/src/engine.py): garment-type         *)
(* normalization, template loading, prompt assembly, the call of the       *)
(* generative model, the extraction of the image from the response and     *)
(* the naming and saving of the result.                                    *)
(*                                                                         *)
(* Text is a sequence of symbols.  A symbol is one character of a          *)
(* caller-supplied string ("S", "a", "ç", ...) or one literal of the       *)
(* source taken whole (a placeholder such as "{{environment}}", a hint     *)
(* literal such as "\n\nNote: The image shows the ").  Python's None is    *)
(* the one-symbol text None.                                               *)
(***************************************************************************)
EXTENDS Integers, Sequences, FiniteSets, TLC

VARIABLES
    \* ---- one call of FashionEngine.generate_lifestyle_photo ----
    pc,            \* position of the call: "idle", "prompted", "responded",
                   \* "returned", "raised"
    args,          \* the arguments of the call in progress
    locals,        \* final_env, final_act, final_prompt, n_images of the call
    response,      \* what model.generate_content answered
    generated_pil, \* the image extracted from the response
    model_calls,   \* invocations of model.generate_content by this call
    outcome,       \* the returned file name, or the exception raised
    storage_mode,  \* settings.storage_mode of the engine
    configured,    \* the backend __init__ set up: "prod" (self.bucket is set)
                   \* or "local" (settings.output_dir was made)
    output_dir,    \* the files of settings.output_dir: name and image
    bucket,        \* the blobs of the storage bucket: name and image
    \* ---- _normalize_garment_type applied repeatedly ----
    norm_input,    \* the label given first
    norm_output,   \* the results of the successive applications
    \* ---- extraction of one inline_data payload ----
    ex_payload,    \* the image bytes the model produced
    ex_response,   \* the response carrying them in one encoding
    ex_result,     \* the outcome of the extraction
    \* ---- invocations of generate_lifestyle_photo running at the same time ----
    workers,       \* each invocation: its position, arguments, image, file offset
    last_writer,   \* the invocation that wrote to a store last, 0 before any
    \* ---- what the callers of the engine have observed so far ----
    seen,          \* per call: its arguments, its prompt, the result returned
    \* ---- the collaborators of the engine ----
    batch,         \* BatchProcessor.process_all: the listing, the loop, the log
    api,           \* one request to POST /generate and its response
    drive,         \* DriveService: the date folder and the uploads made
    config,        \* Settings(): the environment given and the result
    \* ---- the Streamlit application ----
    ui,            \* one session of app.py: its temp files and session state
    oauth          \* UnifiedOAuthHelper: the session's credentials and user info

engineVars == <<pc, args, locals, response, generated_pil, model_calls, outcome, storage_mode, configured,
                output_dir, bucket>>
normVars == <<norm_input, norm_output>>
extractVars == <<ex_payload, ex_response, ex_result>>
raceVars == <<workers, last_writer>>
appVars == <<ui, oauth>>
sideVars == <<raceVars, seen, batch, api, drive, config, appVars>>
vars == <<engineVars, normVars, extractVars, sideVars>>

---------------------------------------------------------------------------
(* Bounds of the model                                                     *)

\* applications of _normalize_garment_type in a row
MaxApplications == 2
\* bytes of an image payload
MaxPayloadLen == 3

---------------------------------------------------------------------------
(* Words: the spellings used by the source and by the inputs               *)

w_pantalon == <<"p", "a", "n", "t", "a", "l", "o", "n">>
w_veste == <<"v", "e", "s", "t", "e">>
w_echarpe_acute == <<"é", "c", "h", "a", "r", "p", "e">>
w_echarpe == <<"e", "c", "h", "a", "r", "p", "e">>
w_bracelete == <<"b", "r", "a", "c", "e", "l", "e", "t", "e">>
w_vestido_de_festa == <<"v", "e", "s", "t", "i", "d", "o", " ", "d", "e", " ", "f", "e", "s", "t", "a">>
w_vestidofesta == <<"v", "e", "s", "t", "i", "d", "o", "f", "e", "s", "t", "a">>
w_vestidodefesta == <<"v", "e", "s", "t", "i", "d", "o", "d", "e", "f", "e", "s", "t", "a">>
w_vestido == <<"v", "e", "s", "t", "i", "d", "o">>
w_vestido_com_modelo == <<"v", "e", "s", "t", "i", "d", "o", " ", "c", "o", "m", " ", "m", "o", "d", "e", "l", "o">>
w_vestidocommodelo == <<"v", "e", "s", "t", "i", "d", "o", "c", "o", "m", "m", "o", "d", "e", "l", "o">>
w_saia == <<"s", "a", "i", "a">>
w_calca_cedilla == <<"c", "a", "l", "ç", "a">>
w_calca == <<"c", "a", "l", "c", "a">>
w_camisa == <<"c", "a", "m", "i", "s", "a">>
w_blusa == <<"b", "l", "u", "s", "a">>
w_colar == <<"c", "o", "l", "a", "r">>
w_sapato == <<"s", "a", "p", "a", "t", "o">>
w_chaussure == <<"c", "h", "a", "u", "s", "s", "u", "r", "e">>
w_conjunto == <<"c", "o", "n", "j", "u", "n", "t", "o">>
w_piece == <<"p", "i", "e", "c", "e">>
w_garment == <<"g", "a", "r", "m", "e", "n", "t">>
w_None == <<"N", "o", "n", "e">>
w_frente == <<"f", "r", "e", "n", "t", "e">>
w_costas == <<"c", "o", "s", "t", "a", "s">>
w_ambos == <<"a", "m", "b", "o", "s">>
w_both == <<"b", "o", "t", "h">>
w_front == <<"f", "r", "o", "n", "t">>
w_back == <<"b", "a", "c", "k">>
w_background_replacement == <<"b", "a", "c", "k", "g", "r", "o", "u", "n", "d", "_", "r", "e", "p", "l", "a", "c", "e", "m", "e", "n", "t">>
W_Saia == <<"S", "a", "i", "a">>
W_Calca_cedilla == <<"C", "a", "l", "ç", "a">>
W_Camisa == <<"C", "a", "m", "i", "s", "a">>
W_Veste == <<"V", "e", "s", "t", "e">>
W_Conjunto == <<"C", "o", "n", "j", "u", "n", "t", "o">>
W_CONJUNTO == <<"C", "O", "N", "J", "U", "N", "T", "O">>
W_Jaqueta == <<"J", "a", "q", "u", "e", "t", "a">>
W_Vestido_com_Modelo == <<"V", "e", "s", "t", "i", "d", "o", " ", "c", "o", "m", " ", "M", "o", "d", "e", "l", "o">>
W_Frente == <<"F", "r", "e", "n", "t", "e">>
W_Ambos == <<"A", "m", "b", "o", "s">>
W_Front == <<"F", "r", "o", "n", "t">>
W_Lado == <<"L", "a", "d", "o">>
n_42 == <<"4", "2">>
f_garment_jpg == <<"g", "a", "r", "m", "e", "n", "t", ".", "j", "p", "g">>
f_saia_jpg == <<"4", "2", "_", "s", "a", "i", "a", ".", "j", "p", "g">>
f_party_jpg == <<"7", "_", "V", "e", "s", "t", "i", "d", "o", "D", "e", "F", "e", "s", "t", "a", ".", "J", "P", "G">>
t_beach == <<"b", "e", "a", "c", "h">>
t_walking == <<"w", "a", "l", "k", "i", "n", "g">>
t_longer == <<"l", "o", "n", "g", "e", "r">>
x_cabide_ == <<"c", "a", "b", "i", "d", "e", "_">>
x_cabide_conjunto_ == <<"c", "a", "b", "i", "d", "e", "_", "c", "o", "n", "j", "u", "n", "t", "o", "_">>
x_png == <<".", "p", "n", "g">>

---------------------------------------------------------------------------
(* Python values and string operations                                     *)

\* Python's None
None == <<"<None>">>

\* bool(x) of a string or None: "if x", "not x", "x or y"
Truthy(x) == x # None /\ x # <<>>

\* x or y
Or(x, y) == IF Truthy(x) THEN x ELSE y

\* f"{x}": None prints as the text None
FStr(x) == IF x = None THEN w_None ELSE x

UpperCase == <<"A", "B", "C", "D", "E", "F", "G", "H", "I", "J", "K", "L", "M", "N", "O", "P", "Q", "R", "S", "T", "U", "V", "W", "X", "Y", "Z", "Ç", "É">>
LowerCase == <<"a", "b", "c", "d", "e", "f", "g", "h", "i", "j", "k", "l", "m", "n", "o", "p", "q", "r", "s", "t", "u", "v", "w", "x", "y", "z", "ç", "é">>

LowerChar(c) ==
    IF \E i \in 1..Len(UpperCase) : UpperCase[i] = c
    THEN LowerCase[CHOOSE i \in 1..Len(UpperCase) : UpperCase[i] = c]
    ELSE c

UpperChar(c) ==
    IF \E i \in 1..Len(LowerCase) : LowerCase[i] = c
    THEN UpperCase[CHOOSE i \in 1..Len(LowerCase) : LowerCase[i] = c]
    ELSE c

\* str.lower()
Lower(s) == [i \in 1..Len(s) |-> LowerChar(s[i])]

\* str.upper() and str.capitalize(), used to spell inputs
Upper(s) == [i \in 1..Len(s) |-> UpperChar(s[i])]
Capitalize(s) == [i \in 1..Len(s) |-> IF i = 1 THEN UpperChar(s[i]) ELSE s[i]]

\* sub in s
Contains(s, sub) ==
    \E i \in 0..(Len(s) - Len(sub)) : SubSeq(s, i + 1, i + Len(sub)) = sub

\* "".join(parts)
RECURSIVE Join(_)
Join(parts) == IF parts = <<>> THEN <<>> ELSE Head(parts) \o Join(Tail(parts))

\* s.replace(old, new) for a placeholder old, which is one symbol
Replace(s, old, new) == Join([i \in 1..Len(s) |-> IF s[i] = old THEN new ELSE <<s[i]>>])

Whitespace == {" ", "\n", "\t"}

\* str.strip()
RECURSIVE LStrip(_)
LStrip(s) == IF s # <<>> /\ Head(s) \in Whitespace THEN LStrip(Tail(s)) ELSE s
RECURSIVE RStrip(_)
RStrip(s) == IF s # <<>> /\ s[Len(s)] \in Whitespace THEN RStrip(SubSeq(s, 1, Len(s) - 1)) ELSE s
Strip(s) == LStrip(RStrip(s))

---------------------------------------------------------------------------
(* Garment-type normalization                                              *)

TYPE_NORMALIZATION_accented ==
    (w_pantalon :> w_calca_cedilla)
    @@ (w_veste :> w_veste)
    @@ (w_echarpe_acute :> w_echarpe)
    @@ (w_echarpe :> w_echarpe)
    @@ (w_bracelete :> w_bracelete)
    @@ (w_vestido_de_festa :> w_vestidodefesta)
    @@ (w_vestidofesta :> w_vestidodefesta)
    @@ (w_vestido :> w_vestido)
    @@ (w_vestido_com_modelo :> w_vestidocommodelo)
    @@ (w_saia :> w_saia)
    @@ (w_calca_cedilla :> w_calca)
    @@ (w_calca :> w_calca)
    @@ (w_camisa :> w_camisa)
    @@ (w_blusa :> w_blusa)
    @@ (w_colar :> w_colar)
    @@ (w_sapato :> w_sapato)
    @@ (w_chaussure :> w_sapato)
    @@ (w_conjunto :> w_conjunto)

TYPE_NORMALIZATION ==
    (w_pantalon :> w_calca)
    @@ (w_veste :> w_veste)
    @@ (w_echarpe_acute :> w_echarpe)
    @@ (w_echarpe :> w_echarpe)
    @@ (w_bracelete :> w_bracelete)
    @@ (w_vestido_de_festa :> w_vestidodefesta)
    @@ (w_vestidofesta :> w_vestidodefesta)
    @@ (w_vestido :> w_vestido)
    @@ (w_vestido_com_modelo :> w_vestidocommodelo)
    @@ (w_saia :> w_saia)
    @@ (w_calca_cedilla :> w_calca)
    @@ (w_calca :> w_calca)
    @@ (w_camisa :> w_camisa)
    @@ (w_blusa :> w_blusa)
    @@ (w_colar :> w_colar)
    @@ (w_sapato :> w_sapato)
    @@ (w_chaussure :> w_sapato)
    @@ (w_conjunto :> w_conjunto)

\* dict.get(key, default)
Get(d, key, default) == IF key \in DOMAIN d THEN d[key] ELSE default

\* FashionEngine._normalize_garment_type
_normalize_garment_type(garment_type) ==
    IF ~Truthy(garment_type)
    THEN w_piece
    ELSE Get(TYPE_NORMALIZATION, Lower(garment_type), Lower(garment_type))

\* ---- the normalizer applied to one label, again and again ----

NormalizeInputs ==
    DOMAIN TYPE_NORMALIZATION
    \cup {Capitalize(k) : k \in DOMAIN TYPE_NORMALIZATION}
    \cup {Upper(k) : k \in DOMAIN TYPE_NORMALIZATION}
    \cup {None, <<>>, W_Jaqueta, w_vestidodefesta}

InitNormalize ==
    /\ norm_input \in NormalizeInputs
    /\ norm_output = <<>>

Normalize ==
    /\ Len(norm_output) < MaxApplications
    /\ norm_output' = Append(norm_output,
           _normalize_garment_type(IF norm_output = <<>>
                                   THEN norm_input
                                   ELSE norm_output[Len(norm_output)]))
    /\ UNCHANGED norm_input

---------------------------------------------------------------------------
(* Settings and the template document                                      *)

\* entries of each configured random pool the model draws from
PoolSize == 2

\* Settings.environments, Settings.activities: each entry one symbol
environments == SubSeq(<<"forest", "park", "beach", "urban street", "luxury hotel",
                         "office", "congress hall", "medical office">>, 1, PoolSize)
activities == SubSeq(<<"walking", "checking phone", "holding a coffee",
                       "smiling at the camera", "giving a presentation",
                       "attending to a client">>, 1, PoolSize)

\* "given or random.choice(pool)": any entry of the pool when given is falsy;
\* random.choice is not called otherwise
RandomChoices(given, pool) ==
    IF Truthy(given) THEN {None} ELSE {<<pool[i]>> : i \in 1..Len(pool)}

\* A section of the template document: its heading line, its body, a blank line
Section(name, body) == <<"#", "#", " Template: ", name, "\n">> \o body \o <<"\n", "\n">>

BodyQuotidien == <<"Everyday photo in ", "{{environment}}", ", ", "{{activity}}", ", wearing the ", "{{garment_type}}", ".">>
BodyParty == <<"Party photo in ", "{{environment}}", ", ", "{{activity}}", ", wearing the ", "{{garment_type}}", ".">>
BodyConjunto == <<"Outfit photo in ", "{{environment}}", ", ", "{{activity}}", ".", "\n", "#", "#", "#", " Rules", "\n", "One person.">>
BodyBackground == <<"Keep the model, replace the background by ", "{{environment}}", ".">>

\* settings.templates_file.read_text(): the four sections the engine names,
\* and a document that lacks the Party and Background Replacement sections
FullTemplates ==
    <<"# Prompt templates", "\n", "\n">>
    \o Section("Virtual Model Quotidien", BodyQuotidien)
    \o Section("Virtual Model Party", BodyParty)
    \o Section("Virtual Model Conjunto", BodyConjunto)
    \o Section("Background Replacement", BodyBackground)

PartialTemplates ==
    Section("Virtual Model Quotidien", BodyQuotidien)
    \o Section("Virtual Model Conjunto", BodyConjunto)

\* the least index >= from at which sub occurs in s, or 0
Find(s, sub, from) ==
    LET hits == {i \in from..(Len(s) - Len(sub) + 1) : SubSeq(s, i, i + Len(sub) - 1) = sub}
    IN  IF hits = {} THEN 0 ELSE CHOOSE i \in hits : \A j \in hits : i <= j

\* the template name _load_template picks for its argument
TemplateName(filename) ==
    IF filename = w_conjunto THEN "Virtual Model Conjunto"
    ELSE IF filename = w_background_replacement THEN "Background Replacement"
    ELSE IF Contains(Lower(filename), w_vestidodefesta) THEN "Virtual Model Party"
    ELSE "Virtual Model Quotidien"

\* a loader that falls back to the default section when the named one is missing
_load_template_default(filename, content) ==
    LET pattern == <<"#", "#", " Template: ", TemplateName(filename), "\n">>
        fallback == <<"#", "#", " Template: ", "Virtual Model Quotidien", "\n">>
        at == IF Find(content, pattern, 1) # 0 THEN Find(content, pattern, 1)
              ELSE Find(content, fallback, 1)
        start == at + Len(IF Find(content, pattern, 1) # 0 THEN pattern ELSE fallback)
        stop == Find(content, <<"\n", "#", "#">>, start)
        last == IF stop = 0 THEN Len(content) ELSE stop - 1
    IN  IF at = 0 THEN <<>> ELSE Strip(SubSeq(content, start, last))

\* FashionEngine._load_template: re.search of
\* "## Template: <name>\n(.*?)(?=\n##|$)" with DOTALL, group 1 stripped
_load_template(filename, content) ==
    LET pattern == <<"#", "#", " Template: ", TemplateName(filename), "\n">>
        at == Find(content, pattern, 1)
        start == at + Len(pattern)
        stop == Find(content, <<"\n", "#", "#">>, start)
        last == IF stop = 0 THEN Len(content) ELSE stop - 1
    IN  IF at = 0 THEN <<>> ELSE Strip(SubSeq(content, start, last))

---------------------------------------------------------------------------
(* Prompt assembly: generate_lifestyle_photo up to the model call          *)

\* Path(p).name of the first path, "garment.jpg" for a file-like object
RefFilename(paths) == IF paths[1] = None THEN f_garment_jpg ELSE paths[1]

IsConjunto(garment_type) == Truthy(garment_type) /\ Lower(garment_type) = w_conjunto

\* conjunto_pieces.get(key, ""): a key the dict lacks reads as ""
PieceGet(conjunto_pieces, key) ==
    IF key \in DOMAIN conjunto_pieces THEN conjunto_pieces[key] ELSE <<>>

\* A dict argument is a function on its keys; None and the empty dict, which
\* the engine never tells apart (it only tests "if conjunto_pieces"), are both
\* the function on no key
NoDict == <<>>

\* bool(conjunto_pieces)
HasPieces(conjunto_pieces) == DOMAIN conjunto_pieces # {}

ConjuntoHint(garment_type, conjunto_pieces) ==
    IF IsConjunto(garment_type) /\ HasPieces(conjunto_pieces)
    THEN <<"\n\nCONJUNTO COMPOSITION: Image 1 = ">> \o FStr(PieceGet(conjunto_pieces, "piece1_type"))
         \o <<", Image 2 = ">> \o FStr(PieceGet(conjunto_pieces, "piece2_type"))
         \o (IF Truthy(PieceGet(conjunto_pieces, "piece3_type"))
             THEN <<", Image 3 = ">> \o FStr(PieceGet(conjunto_pieces, "piece3_type"))
             ELSE <<>>)
         \o <<". You must combine ALL these separate garment pieces into ONE coordinated outfit on the model.">>
    ELSE <<>>

position_map == (w_frente :> "front view") @@ (w_costas :> "back view")

\* the position hint added to a conjunto as to any garment
PositionHint_any_garment(conjunto_hint, position, n_images) ==
    IF Truthy(position) /\ n_images > 1
    THEN IF Lower(position) \in {w_ambos, w_both}
         THEN <<"\n\nNote: Image 1 shows the front view, Image 2 shows the back view.">>
         ELSE <<>>
    ELSE IF Truthy(position) /\ n_images = 1
    THEN LET view == Get(position_map, Lower(position), "")
         IN  IF view # "" THEN <<"\n\nNote: The image shows the ", view, " of the garment.">>
             ELSE <<>>
    ELSE <<>>

\* position_hint
PositionHint(conjunto_hint, position, n_images) ==
    IF conjunto_hint # <<>> THEN <<>>
    ELSE IF Truthy(position) /\ n_images > 1
    THEN IF Lower(position) \in {w_ambos, w_both}
         THEN <<"\n\nNote: Image 1 shows the front view, Image 2 shows the back view.">>
         ELSE <<>>
    ELSE IF Truthy(position) /\ n_images = 1
    THEN LET view == Get(position_map, Lower(position), "")
         IN  IF view # "" THEN <<"\n\nNote: The image shows the ", view, " of the garment.">>
             ELSE <<>>
    ELSE <<>>

attr_mapping ==
    (<<"B", "a", "i", "x", "a">> :> <<"short height">>)
    @@ (<<"M", "é", "d", "i", "a">> :> <<"average height">>)
    @@ (<<"A", "l", "t", "a">> :> <<"tall height">>)
    @@ (<<"E", "s", "g", "u", "i", "a">> :> <<"slender body type">>)
    @@ (<<"P", "l", "u", "s", " ", "S", "i", "z", "e">> :> <<"plus size body type">>)
    @@ (<<"P", "e", "l", "e", " ", "C", "l", "a", "r", "a">> :> <<"fair skin tone">>)
    @@ (<<"P", "e", "l", "e", " ", "M", "é", "d", "i", "a">> :> <<"medium skin tone">>)
    @@ (<<"P", "e", "l", "e", " ", "M", "o", "r", "e", "n", "a">> :> <<"tan skin tone">>)
    @@ (<<"P", "e", "l", "e", " ", "E", "s", "c", "u", "r", "a">> :> <<"dark skin tone">>)
    @@ (<<"P", "e", "l", "e", " ", "N", "e", "g", "r", "a">> :> <<"black skin tone">>)
    @@ (<<"C", "u", "r", "t", "o">> :> <<"short hair">>)
    @@ (<<"M", "é", "d", "i", "o">> :> <<"medium-length hair">>)
    @@ (<<"L", "o", "n", "g", "o">> :> <<"long hair">>)
    @@ (<<"L", "i", "s", "o">> :> <<"straight hair">>)
    @@ (<<"O", "n", "d", "u", "l", "a", "d", "o">> :> <<"wavy hair">>)
    @@ (<<"C", "a", "c", "h", "e", "a", "d", "o">> :> <<"curly hair">>)
    @@ (<<"C", "r", "e", "s", "p", "o">> :> <<"coily/kinky hair">>)
    @@ (<<"L", "o", "i", "r", "o">> :> <<"blonde hair">>)
    @@ (<<"C", "a", "s", "t", "a", "n", "h", "o">> :> <<"brown hair">>)
    @@ (<<"R", "u", "i", "v", "o">> :> <<"red hair">>)
    @@ (<<"P", "r", "e", "t", "o">> :> <<"black hair">>)
    @@ (<<"G", "r", "i", "s", "a", "l", "h", "o">> :> <<"gray hair">>)
    @@ (<<"S", "o", "l", "t", "o">> :> <<"hair down">>)
    @@ (<<"P", "r", "e", "s", "o">> :> <<"hair tied up">>)
    @@ (<<"C", "o", "q", "u", "e">> :> <<"hair in a bun">>)
    @@ (<<"R", "a", "b", "o", " ", "d", "e", " ", "C", "a", "v", "a", "l", "o">> :> <<"hair in a ponytail">>)

\* ", ".join(parts)
RECURSIVE JoinComma(_)
JoinComma(parts) ==
    IF parts = <<>> THEN <<>>
    ELSE IF Len(parts) = 1 THEN parts[1]
    ELSE parts[1] \o <<", ">> \o JoinComma(Tail(parts))

\* model_attributes: the dict's items in order, each <<key, value>>; NoDict
\* for None and for the empty dict
ModelHint(model_attributes) ==
    IF model_attributes = NoDict THEN <<>>
    ELSE LET set == SelectSeq(model_attributes, LAMBDA kv : Truthy(kv[2]))
             attr_parts == [i \in 1..Len(set) |-> Get(attr_mapping, set[i][2], Lower(set[i][2]))]
         IN  IF attr_parts # <<>>
             THEN <<"\n\nMODEL ATTRIBUTES: ">> \o JoinComma(attr_parts) \o <<".">>
             ELSE <<>>

FeedbackInstruction(feedback, conjunto_pieces) ==
    IF ~Truthy(feedback) THEN <<>>
    ELSE IF HasPieces(conjunto_pieces)
    THEN <<"\n\nUSER FEEDBACK FOR IMPROVEMENT: ">> \o feedback
         \o <<"\nIMPORTANT: Generate ONE SINGLE PERSON wearing ALL the garment pieces shown (upper piece, lower piece, and shoes if provided) in a complete outfit. Incorporate the feedback while maintaining garment fidelity and quality.">>
    ELSE <<"\n\nUSER FEEDBACK FOR IMPROVEMENT: ">> \o feedback
         \o <<"\nPlease incorporate this feedback while maintaining all other quality requirements and garment fidelity.">>

\* the party-dress override applies
PartyOverride(a) ==
    Contains(Lower(RefFilename(a.garment_path)), w_vestidodefesta) /\ ~Truthy(a.environment)

\* the override ignored: the random or supplied values stay
ResolveScene_no_override(a, env_choice, act_choice) ==
    [final_env |-> Or(a.environment, env_choice), final_act |-> Or(a.activity, act_choice)]

\* final_env and final_act; env_choice and act_choice are what random.choice gave
ResolveScene(a, env_choice, act_choice) ==
    IF PartyOverride(a)
    THEN [final_env |-> <<"a gala ballroom">>, final_act |-> <<"holding a champagne glass">>]
    ELSE [final_env |-> Or(a.environment, env_choice), final_act |-> Or(a.activity, act_choice)]

\* the argument of _load_template
TemplateKey(a) ==
    IF IsConjunto(a.garment_type) THEN w_conjunto
    ELSE IF Truthy(a.garment_type) /\ Lower(a.garment_type) = w_vestido_com_modelo
    THEN w_background_replacement
    ELSE RefFilename(a.garment_path)

\* the placeholders replaced in the order activity, environment, garment_type
formatted_prompt_activity_first(raw_template, final_env, final_act, normalized_type) ==
    Replace(Replace(Replace(raw_template, "{{activity}}", final_act),
                    "{{environment}}", final_env),
            "{{garment_type}}", normalized_type)

\* raw_template.replace(..).replace(..).replace(..): each replace works on the
\* text the one before it left
formatted_prompt(raw_template, final_env, final_act, normalized_type) ==
    Replace(Replace(Replace(raw_template, "{{environment}}", final_env),
                    "{{activity}}", final_act),
            "{{garment_type}}", normalized_type)

\* the local variables of generate_lifestyle_photo when it reaches the model call
AssemblePrompt(a, env_choice, act_choice) ==
    LET scene == ResolveScene(a, env_choice, act_choice)
        normalized_type == IF Truthy(a.garment_type)
                           THEN _normalize_garment_type(a.garment_type)
                           ELSE w_garment
        raw_template == _load_template(TemplateKey(a), a.templates)
        formatted ==
            formatted_prompt(raw_template, scene.final_env, scene.final_act, normalized_type)
        n_images == Len(a.garment_path)
        conjunto_hint == ConjuntoHint(a.garment_type, a.conjunto_pieces)
        position_hint == PositionHint(conjunto_hint, a.position, n_images)
        model_hint == ModelHint(a.model_attributes)
    IN  [final_env |-> scene.final_env,
         final_act |-> scene.final_act,
         n_images |-> n_images,
         final_prompt |-> formatted \o conjunto_hint \o position_hint \o model_hint
                          \o FeedbackInstruction(a.feedback, a.conjunto_pieces)]

---------------------------------------------------------------------------
(* The model's response and the extraction of the image                    *)

\* A base64 string is the sequence of the code points of its characters.
\* The alphabet: A-Z (65..90) for 0..25, a-z (97..122) for 26..51, 0-9
\* (48..57) for 52..61, "+" (43) for 62, "/" (47) for 63; "=" (61) pads.
B64Char(v) ==
    IF v < 26 THEN 65 + v
    ELSE IF v < 52 THEN 97 + (v - 26)
    ELSE IF v < 62 THEN 48 + (v - 52)
    ELSE IF v = 62 THEN 43 ELSE 47

IsB64Char(c) == c \in (65..90) \cup (97..122) \cup (48..57) \cup {43, 47}

B64Value(c) ==
    IF c \in 65..90 THEN c - 65
    ELSE IF c \in 97..122 THEN c - 97 + 26
    ELSE IF c \in 48..57 THEN c - 48 + 52
    ELSE IF c = 43 THEN 62 ELSE 63

B64Pad == 61

\* base64 of one group of one to three bytes
B64EncodeGroup(g) ==
    LET n == g[1] * 65536 + (IF Len(g) > 1 THEN g[2] ELSE 0) * 256 + (IF Len(g) > 2 THEN g[3] ELSE 0)
        c == <<B64Char(n \div 262144), B64Char((n \div 4096) % 64),
               B64Char((n \div 64) % 64), B64Char(n % 64)>>
    IN  IF Len(g) = 3 THEN c
        ELSE IF Len(g) = 2 THEN SubSeq(c, 1, 3) \o <<B64Pad>>
        ELSE SubSeq(c, 1, 2) \o <<B64Pad, B64Pad>>

\* base64.b64encode: how the SDK spells bytes as a string
RECURSIVE B64Encode(_)
B64Encode(b) ==
    IF b = <<>> THEN <<>>
    ELSE IF Len(b) <= 3 THEN B64EncodeGroup(b)
    ELSE B64EncodeGroup(SubSeq(b, 1, 3)) \o B64Encode(SubSeq(b, 4, Len(b)))

\* the bytes of one group of four characters
B64DecodeGroup(q) ==
    LET pad == IF q[3] = B64Pad THEN 2 ELSE IF q[4] = B64Pad THEN 1 ELSE 0
        v(i) == IF q[i] = B64Pad THEN 0 ELSE B64Value(q[i])
        n == v(1) * 262144 + v(2) * 4096 + v(3) * 64 + v(4)
    IN  SubSeq(<<n \div 65536, (n \div 256) % 256, n % 256>>, 1, 3 - pad)

RECURSIVE B64DecodeGroups(_)
B64DecodeGroups(s) ==
    IF s = <<>> THEN <<>>
    ELSE B64DecodeGroup(SubSeq(s, 1, 4)) \o B64DecodeGroups(SubSeq(s, 5, Len(s)))

\* base64.b64decode(s): characters outside the alphabet are discarded, a
\* length that is no multiple of four raises binascii.Error
B64Decode(s) ==
    LET kept == SelectSeq(s, LAMBDA c : IsB64Char(c) \/ c = B64Pad)
    IN  IF Len(kept) % 4 # 0 THEN [ok |-> FALSE, bytes |-> <<>>]
        ELSE [ok |-> TRUE, bytes |-> B64DecodeGroups(kept)]

\* the string branch without the decoding: the characters of the string
\* taken for the bytes
InlineBytes_undecoded(inline_data) == [ok |-> TRUE, bytes |-> inline_data.data]

\* image_data of a part's inline_data: bytes as they are, a str decoded from
\* base64, any other type through bytes(...)
InlineBytes(inline_data) ==
    IF inline_data.type = "bytes" THEN [ok |-> TRUE, bytes |-> inline_data.data]
    ELSE IF inline_data.type = "str" THEN B64Decode(inline_data.data)
    ELSE [ok |-> TRUE, bytes |-> inline_data.data]

\* Image.open(BytesIO(image_data)): PIL identifies an image by its signature;
\* the model takes the first byte of the PNG signature for it.  The bitmap of
\* an image is its bytes.
PngMagic == 137
IsImage(bytes) == bytes # <<>> /\ bytes[1] = PngMagic

\* a part of candidate.content.parts: text, or inline_data of some type
TextPart == [inline |-> FALSE, type |-> "bytes", data |-> <<>>]
InlinePart(type, data) == [inline |-> TRUE, type |-> type, data |-> data]

\* how the SDK carries payload in inline_data.data
Encodings == {"bytes", "str", "bytelike"}
Encoded(type, payload) == IF type = "str" THEN B64Encode(payload) ELSE payload

\* a response: its candidates; a candidate: the legacy image attribute
\* (has_image: present and not None) and the parts of its content (none when
\* content has no parts attribute or an empty one)
NoCandidates == [answered |-> TRUE, candidates |-> <<>>]
LegacyResponse(image) ==
    [answered |-> TRUE, candidates |-> <<[has_image |-> TRUE, image |-> image, parts |-> <<>>]>>]
PartsResponse(parts) ==
    [answered |-> TRUE, candidates |-> <<[has_image |-> FALSE, image |-> <<>>, parts |-> parts]>>]

\* no response yet
NoResponse == [answered |-> FALSE, candidates |-> <<>>]

Extracted(image) == [ok |-> TRUE, image |-> image, error |-> ""]
Failed(error) == [ok |-> FALSE, image |-> <<>>, error |-> error]

\* the first part taken for the image, whether or not it has inline_data
ExtractImage_first_part(resp) ==
    IF resp.candidates = <<>>
    THEN Failed("Gemini returned no candidates. Response may have been blocked.")
    ELSE LET candidate == resp.candidates[1]
         IN  IF candidate.has_image THEN Extracted(candidate.image)
             ELSE IF candidate.parts # <<>>
             THEN LET image_data == InlineBytes(candidate.parts[1])
                  IN  IF ~image_data.ok THEN Failed("binascii.Error")
                      ELSE IF ~IsImage(image_data.bytes) THEN Failed("UnidentifiedImageError")
                      ELSE Extracted(image_data.bytes)
             ELSE Failed("Gemini did not return an image.")

\* generate_lifestyle_photo from "if not response.candidates" to the end of
\* the try block: generated_pil, or the exception raised inside the try
ExtractImage(resp) ==
    IF resp.candidates = <<>>
    THEN Failed("Gemini returned no candidates. Response may have been blocked.")
    ELSE LET candidate == resp.candidates[1]
             inl == {i \in 1..Len(candidate.parts) : candidate.parts[i].inline}
         IN  IF candidate.has_image THEN Extracted(candidate.image)
             ELSE IF candidate.parts # <<>>
             THEN IF inl = {}
                  THEN Failed("Gemini did not return an image.")
                  ELSE LET first == CHOOSE i \in inl : \A j \in inl : i <= j
                           image_data == InlineBytes(candidate.parts[first])
                       IN  IF ~image_data.ok THEN Failed("binascii.Error")
                           ELSE IF ~IsImage(image_data.bytes) THEN Failed("UnidentifiedImageError")
                           ELSE Extracted(image_data.bytes)
             ELSE Failed("Gemini did not return an image.")

\* ---- one payload carried in each encoding, each extracted ----

\* the values a byte of a payload takes in the model
PayloadBytes == {0, 77, PngMagic}

Payloads == UNION {[1..n -> PayloadBytes] : n \in 0..MaxPayloadLen}

Pending == [done |-> FALSE, ok |-> FALSE, image |-> <<>>, error |-> ""]
Done(r) == [done |-> TRUE, ok |-> r.ok, image |-> r.image, error |-> r.error]

\* the parts around the one that carries the payload
PartsAround(lead, part) ==
    (IF lead THEN <<TextPart>> ELSE <<>>) \o <<part, InlinePart("bytes", <<PngMagic>>)>>

InitExtract ==
    /\ ex_payload \in Payloads
    /\ \E lead \in BOOLEAN :
          ex_response = [e \in Encodings |->
                            PartsResponse(PartsAround(lead, InlinePart(e, Encoded(e, ex_payload))))]
    /\ ex_result = [e \in Encodings |-> Pending]

Extract(e) ==
    /\ ~ex_result[e].done
    /\ ex_result' = [ex_result EXCEPT ![e] = Done(ExtractImage(ex_response[e]))]
    /\ UNCHANGED <<ex_payload, ex_response>>

---------------------------------------------------------------------------
(* Naming and saving the result                                            *)

\* the "if not garment_number or not garment_type" test before the naming
MissingMetadata(a) == ~Truthy(a.garment_number) \/ ~Truthy(a.garment_type)

\* the name of the output file with a version suffix once the stores hold
\* results, as the Drive uploads are named
OutputFilename_versioned(a) ==
    x_cabide_ \o FStr(a.garment_number) \o <<"_">> \o _normalize_garment_type(a.garment_type)
    \o (IF output_dir # {} \/ bucket # {} THEN <<"_v1">> ELSE <<>>) \o x_png

\* the garment type written into the name as the caller gave it
OutputFilename_raw(a) ==
    IF Lower(a.garment_type) = w_conjunto /\ HasPieces(a.conjunto_pieces)
    THEN x_cabide_conjunto_ \o FStr(a.garment_number) \o <<"-">>
         \o _normalize_garment_type(PieceGet(a.conjunto_pieces, "piece1_type"))
         \o <<"-">> \o FStr(a.garment_number) \o <<"-">>
         \o _normalize_garment_type(PieceGet(a.conjunto_pieces, "piece2_type"))
         \o (IF Truthy(PieceGet(a.conjunto_pieces, "piece3_type"))
             THEN <<"-">> \o FStr(a.garment_number) \o <<"-">>
                  \o _normalize_garment_type(PieceGet(a.conjunto_pieces, "piece3_type"))
             ELSE <<>>)
         \o x_png
    ELSE x_cabide_ \o FStr(a.garment_number) \o <<"_">> \o a.garment_type \o x_png

\* the third piece left out of the name of a conjunto
OutputFilename_two_pieces(a) ==
    IF Lower(a.garment_type) = w_conjunto /\ HasPieces(a.conjunto_pieces)
    THEN x_cabide_conjunto_ \o FStr(a.garment_number) \o <<"-">>
         \o _normalize_garment_type(PieceGet(a.conjunto_pieces, "piece1_type"))
         \o <<"-">> \o FStr(a.garment_number) \o <<"-">>
         \o _normalize_garment_type(PieceGet(a.conjunto_pieces, "piece2_type"))
         \o x_png
    ELSE x_cabide_ \o FStr(a.garment_number) \o <<"_">>
         \o _normalize_garment_type(a.garment_type) \o x_png

\* output_filename
OutputFilename(a) ==
    IF Lower(a.garment_type) = w_conjunto /\ HasPieces(a.conjunto_pieces)
    THEN x_cabide_conjunto_ \o FStr(a.garment_number) \o <<"-">>
         \o _normalize_garment_type(PieceGet(a.conjunto_pieces, "piece1_type"))
         \o <<"-">> \o FStr(a.garment_number) \o <<"-">>
         \o _normalize_garment_type(PieceGet(a.conjunto_pieces, "piece2_type"))
         \o (IF Truthy(PieceGet(a.conjunto_pieces, "piece3_type"))
             THEN <<"-">> \o FStr(a.garment_number) \o <<"-">>
                  \o _normalize_garment_type(PieceGet(a.conjunto_pieces, "piece3_type"))
             ELSE <<>>)
         \o x_png
    ELSE x_cabide_ \o FStr(a.garment_number) \o <<"_">>
         \o _normalize_garment_type(a.garment_type) \o x_png

\* writing image under name in a store replaces what the name held
Put(store, name, image) ==
    {f \in store : f.name # name} \cup {[name |-> name, image |-> image]}

\* whether settings.output_dir exists when _save_image writes to it: __init__
\* makes it in local mode only; in prod mode it exists or not
OutputDirExists(conf) == IF conf = "local" THEN {TRUE} ELSE BOOLEAN

\* the exception _save_image raises, "" when it saves: the prod branch reads
\* self.bucket, which __init__ sets in prod mode only; the local branch
\* writes into settings.output_dir
SaveError(mode, conf, dir_exists) ==
    IF mode = "prod"
    THEN IF conf = "prod" THEN "" ELSE "AttributeError"
    ELSE IF dir_exists THEN "" ELSE "FileNotFoundError"

\* what _save_image returns: the public URL of the blob, or the absolute path
SavedAt(mode, filename) ==
    IF mode = "prod" THEN <<"<public_url>/generated/">> \o filename
    ELSE <<"<output_dir>/">> \o filename

---------------------------------------------------------------------------
(* One call of generate_lifestyle_photo, step by step                      *)

NoArgs ==
    [garment_path |-> <<None>>, environment |-> None, activity |-> None,
     garment_number |-> None, garment_type |-> None, position |-> None,
     conjunto_pieces |-> NoDict, model_attributes |-> NoDict, feedback |-> None,
     templates |-> <<>>]

NoLocals == [final_env |-> <<>>, final_act |-> <<>>, n_images |-> 0, final_prompt |-> <<>>]

NoOutcome == [kind |-> "none", exc |-> "", message |-> "", value |-> <<>>]
Returned(value) == [kind |-> "returned", exc |-> "", message |-> "", value |-> value]
Raised(exc, message) == [kind |-> "raised", exc |-> exc, message |-> message, value |-> <<>>]

Pieces(p1, p2, p3) == [piece1_type |-> p1, piece2_type |-> p2, piece3_type |-> p3]

\* the traits chosen in the UI, in the order the UI builds the dict
SomeAttributes ==
    << <<"height", <<"B", "a", "i", "x", "a">> >>,
       <<"hair_color", <<"R", "u", "i", "v", "o">> >> >>

\* the arguments the calls of the engine are drawn from
EngineArgs ==
    {[garment_path |-> <<f_saia_jpg>>, environment |-> x[1], activity |-> t_walking,
      garment_number |-> n, garment_type |-> t, position |-> x[2],
      conjunto_pieces |-> p, model_attributes |-> x[3], feedback |-> x[4],
      templates |-> FullTemplates] :
        n \in {None, n_42},
        t \in {None, W_Saia, W_Conjunto},
        p \in {NoDict, Pieces(W_Camisa, W_Calca_cedilla, None),
               Pieces(W_Camisa, W_Calca_cedilla, W_Veste)},
        x \in {<<None, None, NoDict, None>>,
               <<t_beach, W_Frente, SomeAttributes, t_longer>>}}

\* two images the model may produce
ImageA == <<PngMagic, 0>>
ImageB == <<PngMagic, 77>>

\* the answers of model.generate_content
EngineResponses ==
    {NoCandidates,
     LegacyResponse(ImageA),
     PartsResponse(<<>>),
     PartsResponse(<<TextPart>>),
     PartsResponse(<<InlinePart("bytes", ImageA)>>),
     PartsResponse(<<TextPart, InlinePart("str", B64Encode(ImageB))>>),
     PartsResponse(<<InlinePart("bytelike", ImageB), InlinePart("bytes", ImageA)>>),
     PartsResponse(<<InlinePart("bytes", <<0, 77>>)>>)}

InitEngine ==
    /\ pc = "idle"
    /\ args = NoArgs
    /\ locals = NoLocals
    /\ response = NoResponse
    /\ generated_pil = <<>>
    /\ model_calls = 0
    /\ outcome = NoOutcome
    /\ storage_mode \in {"local", "prod"}
    /\ configured = storage_mode
    /\ output_dir = {}
    /\ bucket = {}

\* the except block of the call: the exception is logged without being
\* raised again, and the call returns None
Wrap_swallowed(error) == Returned(None)

\* the except block of the call: the exception is logged, wrapped and raised
Wrap(error) == Raised("RuntimeError", error)

\* The call up to the try block: the images are opened, the scene is
\* resolved, the template loaded, the prompt assembled.
Call(Args) ==
    /\ pc = "idle"
    /\ \E a \in Args :
          /\ args' = a
          /\ \E env_choice \in RandomChoices(a.environment, environments),
                act_choice \in RandomChoices(a.activity, activities) :
                locals' = AssemblePrompt(a, env_choice, act_choice)
    /\ pc' = "prompted"
    /\ UNCHANGED <<response, generated_pil, model_calls, outcome, storage_mode, configured, output_dir, bucket>>

\* Image.open of an input or read_text of the template file raises: the
\* exception leaves the call before the try block.
OpenFails(Args) ==
    /\ pc = "idle"
    /\ args' \in Args
    /\ outcome' = Raised("OSError", "cannot open")
    /\ pc' = "raised"
    /\ UNCHANGED <<locals, response, generated_pil, model_calls, storage_mode, configured, output_dir, bucket>>

\* model.generate_content(content_parts) answers
InvokeModel ==
    /\ pc = "prompted"
    /\ model_calls' = model_calls + 1
    /\ response' \in EngineResponses
    /\ pc' = "responded"
    /\ UNCHANGED <<args, locals, generated_pil, outcome, storage_mode, configured, output_dir, bucket>>

\* model.generate_content(content_parts) raises: caught, wrapped, raised
ModelRaises ==
    /\ pc = "prompted"
    /\ model_calls' = model_calls + 1
    /\ outcome' = Wrap("transport failure")
    /\ pc' = outcome'.kind
    /\ UNCHANGED <<args, locals, response, generated_pil, storage_mode, configured, output_dir, bucket>>

\* The rest of the call: the image is extracted (a failure is wrapped in a
\* RuntimeError), the metadata checked, the name derived, the image saved.
HandleResponse ==
    /\ pc = "responded"
    /\ LET r == ExtractImage(response)
       IN  IF ~r.ok
           THEN /\ outcome' = Wrap(r.error)
                /\ pc' = outcome'.kind
                /\ UNCHANGED <<generated_pil, output_dir, bucket>>
           ELSE IF MissingMetadata(args)
           THEN /\ generated_pil' = r.image
                /\ outcome' = Raised("ValueError", "Both garment_number and garment_type are required.")
                /\ pc' = "raised"
                /\ UNCHANGED <<output_dir, bucket>>
           ELSE /\ generated_pil' = r.image
                /\ \E dir_exists \in OutputDirExists(configured) :
                      LET error == SaveError(storage_mode, configured, dir_exists)
                      IN  IF error # ""
                          THEN /\ outcome' = Raised(error, "_save_image")
                               /\ pc' = "raised"
                               /\ UNCHANGED <<output_dir, bucket>>
                          ELSE /\ IF storage_mode = "prod"
                                  THEN /\ bucket' = Put(bucket, <<"generated/">> \o OutputFilename(args),
                                                        r.image)
                                       /\ UNCHANGED output_dir
                                  ELSE /\ output_dir' = Put(output_dir, OutputFilename(args), r.image)
                                       /\ UNCHANGED bucket
                               /\ outcome' = Returned(SavedAt(storage_mode, OutputFilename(args)))
                               /\ pc' = "returned"
    /\ UNCHANGED <<args, locals, response, model_calls, storage_mode, configured>>

\* settings.storage_mode is assigned between two calls, after the engine was
\* constructed (Settings is a mutable object shared through get_settings)
SetStorageMode ==
    /\ pc = "idle"
    /\ storage_mode' \in {"local", "prod"} \ {storage_mode}
    /\ UNCHANGED <<pc, args, locals, response, generated_pil, model_calls, outcome, configured,
                   output_dir, bucket>>

\* the caller has the result or the exception; the engine keeps nothing of
\* the call
Finish ==
    /\ pc \in {"returned", "raised"}
    /\ pc' = "idle"
    /\ args' = NoArgs
    /\ locals' = NoLocals
    /\ response' = NoResponse
    /\ generated_pil' = <<>>
    /\ model_calls' = 0
    /\ outcome' = NoOutcome
    /\ UNCHANGED <<storage_mode, configured, output_dir, bucket>>

---------------------------------------------------------------------------
(* Invocations of generate_lifestyle_photo running at the same time, on    *)
(* engines that share the output directory or the bucket.  Each has its    *)
(* image and saves it: blob.upload_from_string replaces the blob in one    *)
(* step; pil_image.save(local_path) opens the file for writing, which      *)
(* empties it, writes the bytes through its own file offset and closes.    *)

Workers == {1, 2}

\* alone: no other invocation had the same file open while this one wrote it
IdleWorker == [pc |-> "idle", args |-> NoArgs, image |-> <<>>, offset |-> 0, alone |-> TRUE]

\* what the concurrent invocations are called for, and what the model gave them
RaceArgs ==
    {[garment_path |-> <<f_saia_jpg>>, environment |-> t_beach, activity |-> t_walking,
      garment_number |-> n_42, garment_type |-> t, position |-> None,
      conjunto_pieces |-> NoDict, model_attributes |-> NoDict, feedback |-> None,
      templates |-> FullTemplates] : t \in {W_Saia, W_Camisa}}
RaceImages == {<<PngMagic, 1, 2>>, <<PngMagic, 3, 4>>, <<PngMagic, 5>>}

\* the content of the local file name, <<>> when there is none
FileContent(store, name) ==
    IF \E f \in store : f.name = name
    THEN (CHOOSE f \in store : f.name = name).image
    ELSE <<>>

\* write in append mode: the byte goes to the end of the file
WriteAt_append(content, offset, byte) == Append(content, byte)

\* write(byte) at a file offset: the byte at offset + 1 is replaced, the file
\* grows when the offset is at or past its end (the gap reads as zeros)
WriteAt(content, offset, byte) ==
    [i \in 1..(IF offset + 1 > Len(content) THEN offset + 1 ELSE Len(content)) |->
        IF i = offset + 1 THEN byte
        ELSE IF i <= Len(content) THEN content[i] ELSE 0]

\* the invocation up to _save_image: the model answered with an image and the
\* metadata is complete
WorkerGenerate(i) ==
    /\ workers[i].pc = "idle"
    /\ \E a \in RaceArgs, img \in RaceImages :
          workers' = [workers EXCEPT ![i] = [pc |-> "generated", args |-> a, image |-> img,
                                             offset |-> 0, alone |-> TRUE]]
    /\ UNCHANGED <<last_writer, output_dir, bucket>>

\* _save_image in prod mode: the blob is replaced whole
WorkerUpload(i) ==
    /\ workers[i].pc = "generated"
    /\ storage_mode = "prod"
    /\ bucket' = Put(bucket, <<"generated/">> \o OutputFilename(workers[i].args), workers[i].image)
    /\ workers' = [workers EXCEPT ![i].pc = "done"]
    /\ last_writer' = i
    /\ UNCHANGED output_dir

\* _save_image in local mode, pil_image.save: the file is opened and emptied
WorkerOpen(i) ==
    /\ workers[i].pc = "generated"
    /\ storage_mode # "prod"
    /\ output_dir' = Put(output_dir, OutputFilename(workers[i].args), <<>>)
    /\ LET others == {j \in Workers \ {i} :
                         /\ workers[j].pc = "writing"
                         /\ OutputFilename(workers[j].args) = OutputFilename(workers[i].args)}
       IN  workers' = [j \in Workers |->
                          IF j = i THEN [workers[i] EXCEPT !.pc = "writing", !.alone = (others = {})]
                          ELSE IF j \in others THEN [workers[j] EXCEPT !.alone = FALSE]
                          ELSE workers[j]]
    /\ last_writer' = i
    /\ UNCHANGED bucket

\* pil_image.save: the next byte is written through the invocation's offset
WorkerWrite(i) ==
    /\ workers[i].pc = "writing"
    /\ workers[i].offset < Len(workers[i].image)
    /\ LET name == OutputFilename(workers[i].args)
           w == workers[i]
       IN  output_dir' = Put(output_dir, name,
                             WriteAt(FileContent(output_dir, name), w.offset, w.image[w.offset + 1]))
    /\ workers' = [workers EXCEPT ![i].offset = @ + 1]
    /\ last_writer' = i
    /\ UNCHANGED bucket

\* pil_image.save: the file is closed, the path returned
WorkerClose(i) ==
    /\ workers[i].pc = "writing"
    /\ workers[i].offset = Len(workers[i].image)
    /\ workers' = [workers EXCEPT ![i].pc = "done"]
    /\ UNCHANGED <<last_writer, output_dir, bucket>>

---------------------------------------------------------------------------
(* One call of generate_lifestyle_photo as its callers see it: what        *)
(* happened inside (an input could not be opened, the model raised, the    *)
(* model answered) decides the outcome and what is saved.                  *)

OpenFailsEvent == [kind |-> "open_fails", response |-> NoResponse]
ModelRaisesEvent == [kind |-> "model_raises", response |-> NoResponse]
Answer(resp) == [kind |-> "answer", response |-> resp]

\* the model was invoked during the call
ModelInvoked(ev) == ev.kind # "open_fails"

\* the return value or the exception of the call
EngineOutcome(a, ev) ==
    IF ev.kind = "open_fails" THEN Raised("OSError", "cannot open")
    ELSE IF ev.kind = "model_raises" THEN Wrap("transport failure")
    ELSE LET r == ExtractImage(ev.response)
         IN  IF ~r.ok THEN Wrap(r.error)
             ELSE IF MissingMetadata(a)
             THEN Raised("ValueError", "Both garment_number and garment_type are required.")
             ELSE IF SaveError(storage_mode, configured, TRUE) # ""
             THEN Raised(SaveError(storage_mode, configured, TRUE), "_save_image")
             ELSE Returned(SavedAt(storage_mode, OutputFilename(a)))

\* the stores after the call
EngineSaves(a, ev, store, mode) ==
    IF EngineOutcome(a, ev).kind = "returned" /\ storage_mode = mode
    THEN Put(store, (IF mode = "prod" THEN <<"generated/">> ELSE <<>>) \o OutputFilename(a),
             ExtractImage(ev.response).image)
    ELSE store

---------------------------------------------------------------------------
(* BatchProcessor.process_all (src/src/main.py)                            *)

\* files of settings.input_dir the listing is drawn from
MaxFiles == 3

f_camisa_png == <<"7", "_", "c", "a", "m", "i", "s", "a", ".", "p", "n", "g">>
f_nonumber_jpg == <<"s", "a", "i", "a", ".", "j", "p", "g">>
f_saia_txt == <<"4", "2", "_", "s", "a", "i", "a", ".", "t", "x", "t">>
t_walking_in_nature == <<"walking in nature">>

BatchNames == {f_saia_jpg, f_party_jpg, f_camisa_png, f_nonumber_jpg, f_saia_txt}

\* input_dir.iterdir(): the names of the directory in any order, none twice
Listings ==
    {l \in UNION {[1..n -> BatchNames] : n \in 0..MaxFiles} :
        \A i \in 1..Len(l), j \in 1..Len(l) : i # j => l[i] # l[j]}

\* the index of the dot that starts Path.suffix, 0 when there is no suffix
SuffixAt(name) ==
    LET dots == {i \in 2..(Len(name) - 1) : name[i] = "."}
    IN  IF dots = {} THEN 0 ELSE CHOOSE i \in dots : \A j \in dots : j <= i

PathSuffix(name) == IF SuffixAt(name) = 0 THEN <<>> ELSE SubSeq(name, SuffixAt(name), Len(name))
PathStem(name) == IF SuffixAt(name) = 0 THEN name ELSE SubSeq(name, 1, SuffixAt(name) - 1)

supported == {<<".", "p", "n", "g">>, <<".", "j", "p", "g">>, <<".", "j", "p", "e", "g">>,
              <<".", "h", "e", "i", "c">>, <<".", "h", "e", "i", "f">>}

IsDigit(c) == c \in {"0", "1", "2", "3", "4", "5", "6", "7", "8", "9"}

\* the length of the match of \d+ at the start of s, 0 when it does not match
DigitsAtStart(s) ==
    LET ends == {n \in 1..Len(s) : \A i \in 1..n : IsDigit(s[i])}
    IN  IF ends = {} THEN 0 ELSE CHOOSE n \in ends : \A m \in ends : m <= n

StartsWith(s, prefix) == Len(s) >= Len(prefix) /\ SubSeq(s, 1, Len(prefix)) = prefix

\* the alternatives of type_pattern, in its order
known_types == <<w_vestidofesta, w_vestido, w_calca, w_pantalon, w_saia, w_veste, w_echarpe,
                 w_bracelete, w_sapato>>

\* extract_metadata_from_filename: <<garment_number, garment_type>>
extract_metadata_from_filename(filename) ==
    LET name == PathStem(filename)
        d == DigitsAtStart(name)
    IN  IF d = 0 \/ d = Len(name) \/ name[d + 1] # "_" THEN <<None, None>>
        ELSE LET rest == SubSeq(Lower(name), d + 2, Len(name))
                 hits == {i \in 1..Len(known_types) : StartsWith(rest, known_types[i])}
             IN  <<SubSeq(name, 1, d),
                   IF hits = {} THEN None
                   ELSE known_types[CHOOSE i \in hits : \A j \in hits : i <= j]>>

\* what the engine does when the batch calls it
BatchEvents ==
    {OpenFailsEvent, ModelRaisesEvent, Answer(NoCandidates),
     Answer(PartsResponse(<<InlinePart("bytes", ImageA)>>))}

\* the call process_all makes for the file name
BatchCall(name, environment) ==
    [garment_path |-> <<name>>, environment |-> environment, activity |-> t_walking_in_nature,
     garment_number |-> extract_metadata_from_filename(name)[1],
     garment_type |-> extract_metadata_from_filename(name)[2],
     position |-> None, conjunto_pieces |-> NoDict, model_attributes |-> NoDict,
     feedback |-> None, templates |-> FullTemplates]

IsSupported(name) == Lower(PathSuffix(name)) \in supported

NoBatch == [pc |-> "off", environment |-> None, listing |-> <<>>, files |-> <<>>, index |-> 0,
            attempts |-> <<>>, log |-> <<>>]

LogEntry(name, what) == [file |-> name, what |-> what]

\* process_all is called on a directory
InitBatch ==
    /\ \E l \in Listings : batch = [NoBatch EXCEPT !.pc = "start", !.environment = t_beach,
                                                   !.listing = l]

\* the exception leaves process_all: the loop is over
Except_reraise(b, name) == [b EXCEPT !.log = Append(@, LogEntry(name, "error")), !.pc = "raised"]

\* "except Exception as e": the error is logged
Except(b, name) == [b EXCEPT !.log = Append(@, LogEntry(name, "error"))]

\* process_all up to the loop: the supported files are listed; none, and it
\* returns
ProcessAllStart ==
    /\ batch.pc = "start"
    /\ LET files == SelectSeq(batch.listing, IsSupported)
       IN  batch' = [batch EXCEPT !.files = files,
                                  !.index = 1,
                                  !.pc = IF files = <<>> THEN "done" ELSE "loop"]
    /\ UNCHANGED <<output_dir, bucket>>

\* one iteration of "for garment in files", the call of the engine included
ProcessOne ==
    /\ batch.pc = "loop"
    /\ LET name == batch.files[batch.index]
           a == BatchCall(name, batch.environment)
       IN  \E ev \in BatchEvents :
             LET invoked == ~MissingMetadata(a)
                 out == EngineOutcome(a, ev)
                 b == IF ~invoked THEN [batch EXCEPT !.log = Append(@, LogEntry(name, "skipped"))]
                      ELSE IF out.kind = "raised"
                      THEN Except([batch EXCEPT !.attempts = Append(@, name)], name)
                      ELSE [batch EXCEPT !.attempts = Append(@, name),
                                         !.log = Append(@, LogEntry(name, "done"))]
             IN  /\ batch' = IF b.pc # "loop" THEN b
                             ELSE IF b.index = Len(b.files) THEN [b EXCEPT !.pc = "done"]
                             ELSE [b EXCEPT !.index = @ + 1]
                 /\ output_dir' = IF invoked THEN EngineSaves(a, ev, output_dir, "local") ELSE output_dir
                 /\ bucket' = IF invoked THEN EngineSaves(a, ev, bucket, "prod") ELSE bucket

---------------------------------------------------------------------------
(* Settings (src/src/config.py): the fields read from the environment,     *)
(* their validators, and the get_settings singleton                        *)

v_local == <<"l", "o", "c", "a", "l">>
v_prod == <<"p", "r", "o", "d">>
v_invalid == <<"i", "n", "v", "a", "l", "i", "d">>
v_PROD == <<"P", "R", "O", "D">>
v_key == <<"test_api_key_12345">>
j_empty == <<"{", "}">>
j_account == <<"{", "\"", "a", "\"", ":", "\"", "b", "\"", "}">>
j_broken == <<"{", "i", "n", "v", "a", "l", "i", "d", " ", "j", "s", "o", "n">>

\* the values the environment variables take; None: the variable is not set
EnvValues ==
    [GEMINI_API_KEY : {None, v_key},
     STORAGE_MODE : {None, v_local, v_prod, v_invalid, v_PROD},
     GCP_SERVICE_ACCOUNT_JSON : {None, j_empty, j_account, j_broken}]

\* a JSON string: quoted, no quote inside
IsJsonString(s) ==
    /\ Len(s) >= 2 /\ s[1] = "\"" /\ s[Len(s)] = "\""
    /\ \A i \in 2..(Len(s) - 1) : s[i] # "\""

\* json.loads(v) does not raise, for the documents of the model: an object of
\* no member or of one member with a string value
IsJson(v) ==
    \/ v = j_empty
    \/ /\ Len(v) >= 2 /\ v[1] = "{" /\ v[Len(v)] = "}"
       /\ \E i \in 2..(Len(v) - 1) :
              /\ v[i] = ":"
              /\ IsJsonString(SubSeq(v, 2, i - 1))
              /\ IsJsonString(SubSeq(v, i + 1, Len(v) - 1))

\* Settings.validate_storage_mode
validate_storage_mode(v) ==
    IF v \notin {v_local, v_prod} THEN [ok |-> FALSE, value |-> v]
    ELSE [ok |-> TRUE, value |-> v]

\* Settings.validate_json
validate_json(v) ==
    IF Truthy(v) /\ v # j_empty /\ ~IsJson(v) THEN [ok |-> FALSE, value |-> v]
    ELSE [ok |-> TRUE, value |-> v]

NoSettings == [gemini_api_key |-> None, storage_mode |-> None, gcp_service_account_json |-> None]

\* Settings(): a field takes the value of its variable, validated, or its
\* default when the variable is not set; the fields that fail are reported
\* together in one ValidationError
Settings(env) ==
    LET mode == IF env.STORAGE_MODE = None THEN [ok |-> TRUE, value |-> v_local]
                ELSE validate_storage_mode(env.STORAGE_MODE)
        json == IF env.GCP_SERVICE_ACCOUNT_JSON = None THEN [ok |-> TRUE, value |-> j_empty]
                ELSE validate_json(env.GCP_SERVICE_ACCOUNT_JSON)
        errors == (IF env.GEMINI_API_KEY = None THEN {"gemini_api_key"} ELSE {})
                  \cup (IF mode.ok THEN {} ELSE {"storage_mode"})
                  \cup (IF json.ok THEN {} ELSE {"gcp_service_account_json"})
    IN  IF errors # {}
        THEN [ok |-> FALSE, errors |-> errors, settings |-> NoSettings]
        ELSE [ok |-> TRUE, errors |-> {},
              settings |-> [gemini_api_key |-> env.GEMINI_API_KEY, storage_mode |-> mode.value,
                            gcp_service_account_json |-> json.value]]

NoCall == [ok |-> FALSE, errors |-> {}, settings |-> NoSettings]

NoConfig == [pc |-> "off", env |-> [GEMINI_API_KEY |-> None, STORAGE_MODE |-> None,
                                   GCP_SERVICE_ACCOUNT_JSON |-> None],
             instance |-> NoSettings, last |-> NoCall]

\* a process starts in some environment, no Settings made yet
InitConfig == \E env \in EnvValues : config = [NoConfig EXCEPT !.pc = "env", !.env = env]

\* Settings() is called
Construct ==
    /\ config.pc # "off"
    /\ config' = [config EXCEPT !.pc = "called", !.last = Settings(config.env)]

\* get_settings(): the instance made first is returned ever after; a
\* construction that raises leaves none
get_settings ==
    /\ config.pc # "off"
    /\ IF config.instance # NoSettings
       THEN config' = [config EXCEPT !.pc = "called",
                                     !.last = [ok |-> TRUE, errors |-> {}, settings |-> config.instance]]
       ELSE config' = [config EXCEPT !.pc = "called", !.last = Settings(config.env),
                                     !.instance = Settings(config.env).settings]

\* the environment variable STORAGE_MODE is set to another value
SetEnv ==
    /\ config.pc # "off"
    /\ \E v \in {v_local, v_prod, v_invalid, v_PROD} \ {config.env.STORAGE_MODE} :
          config' = [config EXCEPT !.pc = "env", !.env.STORAGE_MODE = v]

---------------------------------------------------------------------------
(* POST /generate (src/src/api.py): the OAuth dependency and the endpoint  *)

w_bearer == <<"b", "e", "a", "r", "e", "r">>
h_Bearer_tok == <<"B", "e", "a", "r", "e", "r">> \o <<" ", "ya29.token">>
h_bearer_tok == <<"b", "e", "a", "r", "e", "r">> \o <<" ", "ya29.token">>
h_Bearer_wide == <<"B", "e", "a", "r", "e", "r">> \o <<" ", " ", "ya29.token">>
h_Basic_tok == <<"B", "a", "s", "i", "c">> \o <<" ", "ya29.token">>
h_Bearer_only == <<"B", "e", "a", "r", "e", "r">>
h_Bearer_two == <<"B", "e", "a", "r", "e", "r">> \o <<" ", "ya29.token", " ", "x">>
h_token_only == <<"ya29.token">>
t_posing == <<"posing for a lifestyle catalog">>

\* str.split(): the words between runs of whitespace
RECURSIVE SplitWords(_)
SplitWords(s) ==
    LET rest == LStrip(s)
        stops == {i \in 1..Len(rest) : rest[i] \in Whitespace}
        stop == IF stops = {} THEN Len(rest) + 1 ELSE CHOOSE i \in stops : \A j \in stops : i <= j
    IN  IF rest = <<>> THEN <<>>
        ELSE <<SubSeq(rest, 1, stop - 1)>> \o SplitWords(SubSeq(rest, stop, Len(rest)))

\* the answers of Google's userinfo endpoint to requests.get
GoogleAnswers == {"200", "401", "503", "RequestException"}

Http(status, kind, detail) == [status |-> status, kind |-> kind, detail |-> detail]
NoHttp == Http(0, "none", "")

\* the dependency accepts whatever Google answers
verify_oauth_token_any_answer(authorization, google) ==
    IF ~Truthy(authorization)
    THEN [ok |-> FALSE, asked |-> FALSE, response |-> Http(401, "detail", "Authentication required.")]
    ELSE IF Len(SplitWords(authorization)) # 2 \/ Lower(SplitWords(authorization)[1]) # w_bearer
    THEN [ok |-> FALSE, asked |-> FALSE,
          response |-> Http(401, "detail", "Invalid authorization header format.")]
    ELSE [ok |-> TRUE, asked |-> TRUE, response |-> NoHttp]

\* verify_oauth_token: ok with the user info, or the HTTPException raised;
\* asked: requests.get was called
verify_oauth_token(authorization, google) ==
    IF ~Truthy(authorization)
    THEN [ok |-> FALSE, asked |-> FALSE, response |-> Http(401, "detail", "Authentication required.")]
    ELSE IF Len(SplitWords(authorization)) # 2 \/ Lower(SplitWords(authorization)[1]) # w_bearer
    THEN [ok |-> FALSE, asked |-> FALSE,
          response |-> Http(401, "detail", "Invalid authorization header format.")]
    ELSE IF google = "RequestException"
    THEN [ok |-> FALSE, asked |-> TRUE,
          response |-> Http(401, "detail", "Failed to verify OAuth token")]
    ELSE IF google # "200"
    THEN [ok |-> FALSE, asked |-> TRUE,
          response |-> Http(401, "detail", "Invalid or expired OAuth token")]
    ELSE [ok |-> TRUE, asked |-> TRUE, response |-> NoHttp]

\* the letters of the type group of the pattern in _extract_metadata_from_filename
\* (a-z, A-Z and the characters the source file spells after them, those
\* outside Latin-1 written as their code points)
IsTypeLetter(c) ==
    \/ \E i \in 1..26 : c = LowerCase[i] \/ c = UpperCase[i]
    \/ c \in {"U+221A", "U+2020", "©", "®", "U+2122", "ß"}

ignore_words == {w_front, w_back, w_frente, w_costas}

\* os.path.splitext(filename): <<root, ext>>
SplitExt(filename) == <<PathStem(filename), PathSuffix(filename)>>

\* _extract_metadata_from_filename: <<garment_number, garment_type>>
_extract_metadata_from_filename(filename) ==
    LET name == SplitExt(filename)[1]
        d == DigitsAtStart(name)
        runs == {n \in (d + 2)..Len(name) : \A i \in (d + 2)..n : IsTypeLetter(name[i])}
        last == IF runs = {} THEN 0 ELSE CHOOSE n \in runs : \A m \in runs : m <= n
    IN  IF d = 0 THEN <<None, None>>
        ELSE IF d < Len(name) /\ name[d + 1] = "_" /\ last # 0
                /\ (last = Len(name) \/ name[last + 1] = "_")
        THEN <<SubSeq(name, 1, d),
               IF Lower(SubSeq(name, d + 2, last)) \in ignore_words THEN None
               ELSE Lower(SubSeq(name, d + 2, last))>>
        ELSE <<SubSeq(name, 1, d), None>>

\* the fields Settings declares
SettingsFields ==
    {"gemini_api_key", "storage_mode", "gcs_bucket_name", "gdrive_folder_id",
     "gcp_service_account_json", "gdrive_user_email", "output_dir", "temp_upload_dir",
     "templates_file", "input_dir", "environments", "activities", "backend_url", "version"}

\* _preprocess_image: "" when the JPEG was written, or the exception raised:
\* Image.open rejects what is no image, and the function reads
\* settings.max_image_dimension and settings.image_quality
_preprocess_image(file) ==
    IF ~file.is_image THEN "UnidentifiedImageError"
    ELSE IF "max_image_dimension" \notin SettingsFields \/ "image_quality" \notin SettingsFields
    THEN "AttributeError"
    ELSE ""

f_saia_heic == <<"4", "2", "_", "s", "a", "i", "a", ".", "H", "E", "I", "C">>
f_front_png == <<"1", "2", "_", "f", "r", "o", "n", "t", "_", "2", "0", "2", "5", ".", "p", "n", "g">>
f_saia_gif == <<"4", "2", "_", "s", "a", "i", "a", ".", "g", "i", "f">>

Upload(filename, is_image) == [filename |-> filename, is_image |-> is_image]

f_conjunto_jpg == <<"4", "2", "_", "c", "o", "n", "j", "u", "n", "t", "o", ".", "j", "p", "g">>

\* the requests to POST /generate the model draws from
ApiRequests ==
    [authorization : {None, <<>>, h_Bearer_tok, h_bearer_tok, h_Bearer_wide, h_Basic_tok,
                      h_Bearer_only, h_Bearer_two, h_token_only},
     files : {<<>>, <<Upload(f_saia_jpg, TRUE)>>, <<Upload(f_saia_heic, FALSE)>>,
              <<Upload(f_front_png, TRUE)>>, <<Upload(f_saia_gif, TRUE)>>,
              <<Upload(f_conjunto_jpg, TRUE), Upload(f_front_png, TRUE)>>},
     garment_number : {None, n_42},
     garment_type : {None, W_Conjunto, w_conjunto},
     position : {None},
     feedback : {None},
     piece1_type : {None, W_Camisa},
     piece2_type : {W_Calca_cedilla},
     piece3_type : {None},
     env : {t_beach}]

NoRequest == [authorization |-> None, files |-> <<>>, garment_number |-> None,
              garment_type |-> None, position |-> None, feedback |-> None,
              piece1_type |-> None, piece2_type |-> None, piece3_type |-> None, env |-> None]

\* temp: the files under settings.temp_upload_dir; asked: calls of Google's
\* userinfo endpoint; engine_calls: calls of engine.generate_lifestyle_photo
\* event: what the engine meets when this request reaches it; engine_args:
\* the arguments of the call of the engine, NoArgs while it is not called
NoApi == [pc |-> "off", request |-> NoRequest, google |-> "", response |-> NoHttp,
          temp |-> {}, asked |-> 0, engine_calls |-> 0, event |-> OpenFailsEvent,
          engine_args |-> NoArgs]

InitApi == \E r \in ApiRequests : api = [NoApi EXCEPT !.pc = "received", !.request = r]

\* the dependency verify_oauth_token runs before the endpoint body
VerifyToken ==
    /\ api.pc = "received"
    /\ \E google \in GoogleAnswers :
          LET v == verify_oauth_token(api.request.authorization, google)
          IN  api' = [api EXCEPT !.pc = IF v.ok THEN "authenticated" ELSE "responded",
                                 !.google = IF v.asked THEN google ELSE "",
                                 !.asked = IF v.asked THEN @ + 1 ELSE @,
                                 !.response = v.response]
    /\ UNCHANGED <<output_dir, bucket>>

\* the file f"{job_id}_{idx}{ext}" of settings.temp_upload_dir
TempPath(idx, ext) == <<"<job_id>", "_", idx>> \o ext

jpg == <<".", "j", "p", "g">>

\* the loop over the uploads: each is checked, written to its temp path and
\* preprocessed; the first that fails ends the loop with a 400
RECURSIVE ProcessUploads(_, _, _, _)
ProcessUploads(files, idx, disk, temp_paths) ==
    IF idx > Len(files)
    THEN [response |-> NoHttp, disk |-> disk, temp_paths |-> temp_paths]
    ELSE LET file == files[idx]
             file_ext == Lower(SplitExt(file.filename)[2])
             temp_path == TempPath(idx - 1, file_ext)
         IN  IF file.filename = <<>>
             THEN [response |-> Http(400, "detail", "Filename is required"), disk |-> disk,
                   temp_paths |-> temp_paths]
             ELSE IF file_ext \notin supported
             THEN [response |-> Http(400, "detail", "Unsupported file type"), disk |-> disk,
                   temp_paths |-> temp_paths]
             ELSE IF _preprocess_image(file) # ""
             THEN [response |-> Http(400, "detail", "Failed to process image"),
                   disk |-> disk \cup {temp_path}, temp_paths |-> temp_paths]
             ELSE ProcessUploads(files, idx + 1, disk \cup {TempPath(idx - 1, jpg)},
                                 Append(temp_paths, TempPath(idx - 1, jpg)))

\* the call of the engine the endpoint makes
ApiCall(temp_paths, r, garment_number, garment_type) ==
    [garment_path |-> temp_paths, environment |-> r.env, activity |-> t_posing,
     garment_number |-> garment_number, garment_type |-> garment_type, position |-> r.position,
     conjunto_pieces |-> IF garment_type = W_Conjunto
                         THEN Pieces(r.piece1_type, r.piece2_type, r.piece3_type)
                         ELSE NoDict,
     model_attributes |-> NoDict, feedback |-> r.feedback, templates |-> FullTemplates]

\* what the endpoint answers once the engine returned or raised:
\* os.path.exists(result_path_or_url) holds of a path the engine saved to
ApiAnswer(out) ==
    IF out.kind = "raised" THEN Http(500, "detail", "Engine Error")
    ELSE IF storage_mode = "prod" THEN Http(500, "detail", "Generated image file not found")
    ELSE Http(200, "file", "image/png")

\* the body of generate_model_photo, its finally clause included
Generate ==
    /\ api.pc = "authenticated"
    /\ \E ev \in BatchEvents :
          LET r == api.request
              extracted == IF r.files = <<>> THEN <<None, None>>
                           ELSE _extract_metadata_from_filename(r.files[1].filename)
              garment_number == Or(r.garment_number, extracted[1])
              garment_type == Or(r.garment_type, extracted[2])
              up == ProcessUploads(r.files, 1, {}, <<>>)
              a == ApiCall(up.temp_paths, r, garment_number, garment_type)
              early == IF r.files = <<>> THEN Http(400, "detail", "At least one file is required")
                       ELSE IF ~Truthy(garment_number) \/ ~Truthy(garment_type)
                       THEN Http(400, "detail", "garment_number and garment_type are required.")
                       ELSE NoHttp
              called == early = NoHttp /\ up.response = NoHttp
          IN  /\ api' = [api EXCEPT
                            !.pc = "responded",
                            !.event = ev,
                            !.response = IF early # NoHttp THEN early
                                         ELSE IF up.response # NoHttp THEN up.response
                                         ELSE ApiAnswer(EngineOutcome(a, ev)),
                            !.temp = IF early # NoHttp THEN @
                                     ELSE @ \cup (up.disk \ {up.temp_paths[i] : i \in 1..Len(up.temp_paths)}),
                            !.engine_calls = IF called THEN @ + 1 ELSE @,
                            !.engine_args = IF called THEN a ELSE @]
              /\ output_dir' = IF called THEN EngineSaves(a, ev, output_dir, "local") ELSE output_dir
              /\ bucket' = IF called THEN EngineSaves(a, ev, bucket, "prod") ELSE bucket

\* DriveService (driver_service.py)
MaxUploads == 4

f_cabide_png == <<"c", "a", "b", "i", "d", "e", "_", "4", "2", "_", "s", "a", "i", "a", ".", "p", "n", "g">>
f_cabide == <<"c", "a", "b", "i", "d", "e", "_", "4", "2", "_", "s", "a", "i", "a">>
f_a_b_png == <<"a", ".", "b", ".", "p", "n", "g">>
DriveFilenames == {f_cabide_png, f_cabide, f_a_b_png}

\* the days datetime.now() can fall on, in their order
Days == <<"20251229", "20251230">>

\* str.rsplit(".", 1)
RSplitDot(s) ==
    LET dots == {i \in 1..Len(s) : s[i] = "."}
        last == CHOOSE i \in dots : \A j \in dots : j <= i
    IN  IF dots = {} THEN <<s>> ELSE <<SubSeq(s, 1, last - 1), SubSeq(s, last + 1, Len(s))>>

DecimalDigits == <<"0", "1", "2", "3", "4", "5", "6", "7", "8", "9">>

\* str(n) of a natural number
RECURSIVE Decimal(_)
Decimal(n) == IF n < 10 THEN <<DecimalDigits[n + 1]>>
              ELSE Decimal(n \div 10) \o <<DecimalDigits[(n % 10) + 1]>>

\* int(digits)
RECURSIVE ParseInt(_)
ParseInt(digits) ==
    IF digits = <<>> THEN 0
    ELSE 10 * ParseInt(SubSeq(digits, 1, Len(digits) - 1))
         + (CHOOSE d \in 0..9 : DecimalDigits[d + 1] = digits[Len(digits)])

\* re.match(version_pattern, name): the digits of group 1, <<>> without a match.
\* The pattern is base_name, "_v", \d+, a literal ".", extension, and matches
\* at the start of the name
MatchVersion(base_name, extension, name) ==
    LET prefix == base_name \o <<"_", "v">>
        rest == SubSeq(name, Len(prefix) + 1, Len(name))
        n == DigitsAtStart(rest)
        after == SubSeq(rest, n + 1, Len(rest))
    IN  IF StartsWith(name, prefix) /\ n > 0 /\ StartsWith(after, <<".">> \o extension)
        THEN SubSeq(rest, 1, n) ELSE <<>>

Max(S) == CHOOSE n \in S : \A m \in S : m <= n

\* f"{base_name}_v{next_version}.{extension}" if extension else f"{base_name}_v{next_version}"
VersionedName(base_name, extension, next_version) ==
    base_name \o <<"_", "v">> \o Decimal(next_version)
    \o (IF extension # <<>> THEN <<".">> \o extension ELSE <<>>)

\* _get_versioned_filename, of the names in the folder; the query returns
\* the names that contain base_name
_get_versioned_filename(names, base_filename) ==
    LET name_parts == RSplitDot(base_filename)
        base_name == IF Len(name_parts) = 2 THEN name_parts[1] ELSE base_filename
        extension == IF Len(name_parts) = 2 THEN name_parts[2] ELSE <<>>
        existing_names == {n \in names : Contains(n, base_name)}
        full_base_name == IF extension # <<>> THEN base_name \o <<".">> \o extension ELSE base_name
        versions == {ParseInt(MatchVersion(base_name, extension, n)) :
                        n \in {m \in existing_names : MatchVersion(base_name, extension, m) # <<>>}}
        next_version == IF versions # {} THEN Max(versions) + 1 ELSE 1
    IN  IF full_base_name \notin existing_names THEN base_filename
        ELSE VersionedName(base_name, extension, next_version)

\* today: index in Days; folders: the files of each day's output folder,
\* in upload order; exists: the days whose folders exist on Drive;
\* _folder_cache: the days whose folder id is cached; filename: the base
\* filename of this run's uploads
NoDrive == [pc |-> "off", today |-> 1, folders |-> [d \in 1..Len(Days) |-> <<>>], exists |-> {},
            _folder_cache |-> {}, filename |-> <<>>, uploads |-> 0]

InitDrive ==
    \E filename \in DriveFilenames, today \in 1..Len(Days) :
        drive = [NoDrive EXCEPT !.pc = "ready", !.filename = filename, !.today = today]

\* upload_file(file_bytes, filename)
upload_file ==
    /\ drive.pc = "ready"
    /\ drive.uploads < MaxUploads
    /\ \E file_bytes \in {ImageA, ImageB} :
          LET d == drive.today
              names == {drive.folders[d][i].name : i \in 1..Len(drive.folders[d])}
              final_filename == _get_versioned_filename(names, drive.filename)
          IN  drive' = [drive EXCEPT
                           !.exists = @ \cup {d},
                           !._folder_cache = @ \cup {d},
                           !.folders[d] = Append(@, [name |-> final_filename, bytes |-> file_bytes]),
                           !.uploads = @ + 1]

\* midnight passes between two uploads
DayPasses ==
    /\ drive.pc = "ready"
    /\ drive.today < Len(Days)
    /\ drive' = [drive EXCEPT !.today = @ + 1]

---------------------------------------------------------------------------
(* The Streamlit application (app.py): one session                         *)

\* clicks of the two generation buttons in a session
MaxGenerations == 2

f_img1_jpg == <<"I", "M", "G", "_", "1", ".", "j", "p", "g">>
f_img2_jpg == <<"I", "M", "G", "_", "2", ".", "j", "p", "g">>
f_img3_heic == <<"I", "M", "G", "_", "3", ".", "h", "e", "i", "c">>
n_42_padded == <<" ", "4", "2">>

\* the bytes of two photos
PhotoA == <<255, 216, 1>>
PhotoB == <<255, 216, 2>>

UploadedFile(name, content) == [name |-> name, content |-> content]

\* what the file uploader can hold: one file or two
UploadedFiles ==
    LET files == {UploadedFile(f_img1_jpg, PhotoA), UploadedFile(f_img1_jpg, PhotoB),
                  UploadedFile(f_img2_jpg, PhotoA), UploadedFile(f_img3_heic, PhotoB)}
    IN  {<<u>> : u \in files}
        \cup {<<UploadedFile(f_img1_jpg, PhotoA), UploadedFile(f_img2_jpg, PhotoA)>>,
              <<UploadedFile(f_img2_jpg, PhotoA), UploadedFile(f_img1_jpg, PhotoB)>>}

\* the form: number, type and, for a conjunto, its pieces (both required
\* pieces chosen, no third piece)
Forms ==
    {[garment_number |-> n_42_padded, garment_type |-> W_Saia, position |-> W_Frente,
      piece1_type |-> None, piece2_type |-> None, piece3_type |-> None]}
    \cup {[garment_number |-> n_42, garment_type |-> W_Conjunto, position |-> W_Frente,
           piece1_type |-> W_Camisa, piece2_type |-> W_Calca_cedilla, piece3_type |-> <<>>]}

\* the checks of the button handler before it generates
ValidForm(form, uploaded_files) ==
    /\ uploaded_files # <<>>
    /\ Truthy(form.garment_number) /\ Strip(form.garment_number) # <<>>
    /\ Truthy(form.garment_type)
    /\ form.garment_type = W_Conjunto =>
           /\ Truthy(form.piece1_type) /\ Truthy(form.piece2_type)
           /\ Len(uploaded_files) = IF ~Truthy(form.piece3_type) THEN 2 ELSE 3

\* f"temp_{idx}_{uploaded_file.name}" and f"temp_{idx}_converted.png"
TempName(idx, name) == <<"temp_">> \o Decimal(idx) \o <<"_">> \o name
ConvertedName(idx) == <<"temp_">> \o Decimal(idx) \o <<"_converted.png">>

\* img.save(png_name, format="PNG") of the photo opened
PngOf(content) == <<PngMagic>> \o content

IsHeic(name) == Lower(PathSuffix(name)) \in {<<".", "h", "e", "i", "c">>, <<".", "h", "e", "i", "f">>}

Remove(store, name) == {f \in store : f.name # name}

\* the loop that writes the uploads to the working directory; in direct
\* mode a HEIC upload is converted to PNG and removed.  failed: the
\* conversion raised
RECURSIVE WriteTemps(_, _, _, _, _, _)
WriteTemps(uploaded_files, idx, disk, temp_paths, convert, heic_ok) ==
    IF idx > Len(uploaded_files)
    THEN [disk |-> disk, temp_paths |-> temp_paths, failed |-> FALSE]
    ELSE LET uploaded_file == uploaded_files[idx]
             temp_name == TempName(idx - 1, uploaded_file.name)
             written == Put(disk, temp_name, uploaded_file.content)
         IN  IF convert /\ IsHeic(uploaded_file.name)
             THEN IF ~heic_ok
                  THEN [disk |-> written, temp_paths |-> temp_paths, failed |-> TRUE]
                  ELSE WriteTemps(uploaded_files, idx + 1,
                                  Remove(Put(written, ConvertedName(idx - 1),
                                             PngOf(uploaded_file.content)), temp_name),
                                  Append(temp_paths, ConvertedName(idx - 1)), convert, heic_ok)
             ELSE WriteTemps(uploaded_files, idx + 1, written, Append(temp_paths, temp_name),
                             convert, heic_ok)

\* st.session_state.last_params
NoParams == [garment_number |-> None, garment_type |-> None, position |-> None,
             conjunto_data |-> NoDict]

LastParams(form) ==
    [garment_number |-> form.garment_number, garment_type |-> form.garment_type,
     position |-> form.position,
     conjunto_data |-> IF form.garment_type = W_Conjunto
                       THEN Pieces(form.piece1_type, form.piece2_type, form.piece3_type)
                       ELSE NoDict]

\* the arguments the engine gets for the parameters, called directly or
\* behind the API (which receives the pieces of a "Conjunto")
UiCall(params, temp_paths, feedback) ==
    [garment_path |-> temp_paths, environment |-> t_beach, activity |-> t_walking,
     garment_number |-> Strip(params.garment_number), garment_type |-> params.garment_type,
     position |-> params.position, conjunto_pieces |-> params.conjunto_data,
     model_attributes |-> NoDict, feedback |-> feedback, templates |-> FullTemplates]

\* download_filename of the feedback section
download_filename(params) ==
    x_cabide_ \o Strip(params.garment_number) \o <<"_">>
    \o Get(TYPE_NORMALIZATION, Lower(params.garment_type), Lower(params.garment_type)) \o x_png

\* the bytes of the files named, in order; <<>> for a file that is missing
ReadAll(disk, paths) ==
    [i \in 1..Len(paths) |->
        IF \E f \in disk : f.name = paths[i]
        THEN (CHOOSE f \in disk : f.name = paths[i]).image ELSE <<>>]

\* disk: the temp files in the working directory; the three last_* keys of
\* st.session_state; clicks: generation buttons pressed.  History kept for
\* the properties: recent, the names the latest generation started could
\* write its temp files under;
\* shown_from, the photos that produced last_image_bytes; params_from, the
\* photos uploaded with last_params; engine_filename, the name the engine
\* saved last_image_bytes under; drive_uploads, the names given to
\* upload_file; clicked, the generation button pressed last
NoUi == [pc |-> "off", use_api |-> FALSE, disk |-> {}, last_image_bytes |-> <<>>,
         last_temp_paths |-> <<>>, last_params |-> NoParams, clicks |-> 0,
         recent |-> {}, shown_from |-> <<>>, params_from |-> <<>>,
         engine_filename |-> <<>>, drive_uploads |-> {}, clicked |-> ""]

InitUi == \E use_api \in BOOLEAN : ui = [NoUi EXCEPT !.pc = "idle", !.use_api = use_api]

\* the images the engine can give; <<>> stands for its raising
EngineResults == {<<>>, ImageA, ImageB}

\* the button "Gerar foto profissional" with a valid form
GenerateClick ==
    /\ ui.pc = "idle"
    /\ ui.clicks < MaxGenerations
    /\ \E uploaded_files \in UploadedFiles, form \in Forms, result \in EngineResults,
          heic_ok \in BOOLEAN :
          /\ ValidForm(form, uploaded_files)
          /\ heic_ok \/ (~ui.use_api /\ \E i \in 1..Len(uploaded_files) : IsHeic(uploaded_files[i].name))
          /\ LET w == WriteTemps(uploaded_files, 1, ui.disk, <<>>, ~ui.use_api, heic_ok)
                 ok == ~w.failed /\ result # <<>>
             IN  ui' = [ui EXCEPT
                           !.clicks = @ + 1,
                           !.clicked = "generate",
                           !.disk = w.disk,
                           !.recent = {TempName(i - 1, uploaded_files[i].name) : i \in 1..Len(uploaded_files)}
                                      \cup {ConvertedName(i - 1) : i \in 1..Len(uploaded_files)},
                           !.last_image_bytes = IF ok THEN result ELSE @,
                           !.last_temp_paths = IF ok THEN w.temp_paths ELSE @,
                           !.last_params = IF ok THEN LastParams(form) ELSE @,
                           !.shown_from = IF ok THEN ReadAll(w.disk, w.temp_paths) ELSE @,
                           !.params_from = IF ok THEN ReadAll(w.disk, w.temp_paths) ELSE @,
                           !.engine_filename =
                               IF ok THEN OutputFilename(UiCall(LastParams(form), w.temp_paths, None))
                               ELSE @]

\* the feedback section is shown
FeedbackSection == Truthy(ui.last_image_bytes) /\ ui.last_params # NoParams

\* the button "Regenerar com Feedback", some feedback typed
RegenerateClick ==
    /\ ui.pc = "idle"
    /\ ui.clicks < MaxGenerations
    /\ FeedbackSection
    /\ \E result \in EngineResults :
          LET read == ReadAll(ui.disk, ui.last_temp_paths)
              ok == result # <<>> /\ \A i \in 1..Len(read) : read[i] # <<>>
          IN  ui' = [ui EXCEPT
                        !.clicks = @ + 1,
                        !.clicked = "regenerate",
                        !.last_image_bytes = IF ok THEN result ELSE @,
                        !.shown_from = IF ok THEN read ELSE @,
                        !.engine_filename =
                            IF ok THEN OutputFilename(UiCall(ui.last_params, ui.last_temp_paths, t_longer))
                            ELSE @]

\* the button "Save to Store Drive"
SaveToDriveClick ==
    /\ ui.pc = "idle"
    /\ FeedbackSection
    /\ download_filename(ui.last_params) \notin ui.drive_uploads
    /\ ui' = [ui EXCEPT !.drive_uploads = @ \cup {download_filename(ui.last_params)}]

---------------------------------------------------------------------------
(* UnifiedOAuthHelper and the login page (oauth_helper.py, auth_ui.py)     *)

MaxLogins == 2

Accounts == {"ana", "bia"}
u_backend == <<"https://api.example">>
u_auth_url == <<"https://accounts.google.com/o/oauth2/auth">>
code_4_0A == <<"4/0A">>

\* what the user pastes: the bare code, the redirect URL, a URL without code
UserInputs ==
    { <<" ">> \o code_4_0A \o <<" ">>,
      <<"http", "://localhost:8080/", "?", "code", "=", "4/0A", "&", "scope", "=", "openid">>,
      <<"http", "://localhost:8080/">> }

\* urllib.parse.parse_qs(urlparse(url).query).get("code"): <<>> when absent
QueryCode(url) ==
    LET at == {i \in 1..Len(url) - 2 : url[i] = "code" /\ url[i + 1] = "="
                                        /\ \E q \in 1..i - 1 : url[q] = "?"}
    IN  IF at = {} THEN <<>>
        ELSE <<url[(CHOOSE i \in at : \A j \in at : i <= j) + 2]>>

\* flow.fetch_token(code=code): credentials granted to an account, with or
\* without a refresh token, or the exchange refused
TokenExchanges ==
    {[kind |-> "granted", account |-> a, refresh_token |-> r] : a \in Accounts, r \in BOOLEAN}
        \cup {[kind |-> "invalid_grant", account |-> "", refresh_token |-> FALSE]}

Credentials(account, refresh_token) ==
    [token |-> <<"ya29.", account>>, expired |-> FALSE, refresh_token |-> refresh_token]

\* the answer of the userinfo endpoint for the credentials' token
UserInfo(creds) == [email |-> <<creds.token[2], "@gmail.com">>, name |-> <<creds.token[2]>>]

NoOAuth ==
    [pc |-> "off", backend_url |-> None,
     oauth_credentials |-> <<>>, oauth_user_info |-> <<>>,
     oauth_auth_url |-> None, oauth_redirect_uri |-> None,
     message |-> "", logins |-> 0, clicked |-> "",
     raised |-> FALSE, auth_before |-> FALSE, auth_after |-> FALSE]

InitOAuth ==
    \E b \in {None, u_backend} : oauth = [NoOAuth EXCEPT !.pc = "login", !.backend_url = b]

\* get_credentials: the valid credentials (<<>> for None) and the session
\* state left behind; refresh_ok: creds.refresh succeeds
get_credentials(state, refresh_ok) ==
    IF state.oauth_credentials = <<>> THEN [creds |-> <<>>, state |-> state]
    ELSE LET creds == state.oauth_credentials[1]
             fresh == [creds EXCEPT !.expired = FALSE]
         IN  IF creds.expired /\ creds.refresh_token
             THEN IF refresh_ok
                  THEN [creds |-> <<fresh>>, state |-> [state EXCEPT !.oauth_credentials = <<fresh>>]]
                  ELSE [creds |-> <<>>, state |-> state]
             ELSE [creds |-> IF creds.expired THEN <<>> ELSE <<creds>>, state |-> state]

is_authenticated(state, refresh_ok) == get_credentials(state, refresh_ok).creds # <<>>

get_user_info(state) == state.oauth_user_info

\* fetch_and_save_user_info: raise_for_status or requests.get raises unless
\* Google answers 200
fetch_and_save_user_info(state, creds, google) ==
    IF google # "200" THEN [raised |-> TRUE, state |-> state]
    ELSE [raised |-> FALSE, state |-> [state EXCEPT !.oauth_user_info = <<UserInfo(creds)>>]]

save_credentials_from_code(state, exchange, google) ==
    IF exchange.kind # "granted" THEN [raised |-> TRUE, state |-> state]
    ELSE LET creds == Credentials(exchange.account, exchange.refresh_token)
         IN  fetch_and_save_user_info([state EXCEPT !.oauth_credentials = <<creds>>], creds, google)

revoke_authentication(state) ==
    [state EXCEPT !.oauth_credentials = <<>>, !.oauth_user_info = <<>>]

\* require_authentication at the top of a script run: the page shown
PageOf(state, refresh_ok) == IF is_authenticated(state, refresh_ok) THEN "app" ELSE "login"

\* a script run with no button handled
Rerun ==
    /\ oauth.pc \in {"login", "app"}
    /\ \E refresh_ok \in BOOLEAN :
          LET top == get_credentials(oauth, refresh_ok).state
          IN  /\ PageOf(oauth, refresh_ok) # oauth.pc \/ top # oauth
              /\ oauth' = [top EXCEPT !.pc = PageOf(oauth, refresh_ok), !.clicked = "rerun"]

\* the button "Gerar Link de Login"; secrets_ok: Flow.from_client_secrets_file
\* finds the client secrets
GenerateLinkClick ==
    /\ oauth.pc = "login"
    /\ oauth.oauth_auth_url = None
    /\ \E refresh_ok, secrets_ok \in BOOLEAN :
          LET top == get_credentials(oauth, refresh_ok).state
              redirect_uri == IF Truthy(oauth.backend_url)
                              THEN oauth.backend_url \o <<"/oauth/callback">> ELSE None
          IN  IF is_authenticated(oauth, refresh_ok)
              THEN oauth' = [top EXCEPT !.pc = "app", !.clicked = "rerun"]
              ELSE IF ~secrets_ok
              THEN oauth' = [top EXCEPT !.message = "Erro ao gerar link", !.clicked = "link"]
              ELSE oauth' = [top EXCEPT !.oauth_auth_url = u_auth_url,
                                        !.oauth_redirect_uri = redirect_uri,
                                        !.message = "", !.clicked = "link"]

\* the button "Confirmar" with the pasted code or URL
ConfirmClick ==
    /\ oauth.pc = "login"
    /\ oauth.oauth_auth_url # None
    /\ oauth.logins < MaxLogins
    /\ \E user_input \in UserInputs, exchange \in TokenExchanges, google \in GoogleAnswers,
          refresh_ok \in BOOLEAN :
          LET top == get_credentials(oauth, refresh_ok).state
              is_url == user_input[1] = "http"
              code == IF is_url THEN QueryCode(user_input) ELSE Strip(user_input)
              saved == save_credentials_from_code(top, exchange, google)
              after == is_authenticated(saved.state, refresh_ok)
          IN  IF is_authenticated(oauth, refresh_ok)
              THEN oauth' = [top EXCEPT !.pc = "app", !.clicked = "rerun"]
              ELSE IF is_url /\ code = <<>>
              THEN oauth' = [top EXCEPT !.message = "URL invalida", !.clicked = "invalid"]
              ELSE oauth' = [saved.state EXCEPT
                                !.logins = @ + 1,
                                !.clicked = "confirm",
                                !.raised = saved.raised,
                                !.auth_before = FALSE,
                                !.auth_after = after,
                                !.oauth_auth_url = IF saved.raised THEN @ ELSE None,
                                !.oauth_redirect_uri = IF saved.raised THEN @ ELSE None,
                                !.message = IF saved.raised THEN "Erro ao fazer login"
                                            ELSE "Login realizado com sucesso!",
                                !.pc = IF saved.raised THEN "login"
                                       ELSE IF after THEN "app" ELSE "login"]

\* the button "Cancelar"
CancelClick ==
    /\ oauth.pc = "login"
    /\ oauth.oauth_auth_url # None
    /\ \E refresh_ok \in BOOLEAN :
          LET top == get_credentials(oauth, refresh_ok).state
          IN  IF is_authenticated(oauth, refresh_ok)
              THEN oauth' = [top EXCEPT !.pc = "app", !.clicked = "rerun"]
              ELSE oauth' = [top EXCEPT !.oauth_auth_url = None, !.oauth_redirect_uri = None,
                                        !.clicked = "cancel"]

\* the button "Logout", shown by show_user_info when there is user info
LogoutClick ==
    /\ oauth.pc = "app"
    /\ get_user_info(oauth) # <<>>
    /\ \E refresh_ok \in BOOLEAN :
          LET top == get_credentials(oauth, refresh_ok).state
          IN  IF ~is_authenticated(oauth, refresh_ok)
              THEN oauth' = [top EXCEPT !.pc = "login", !.clicked = "rerun"]
              ELSE oauth' = [revoke_authentication(top) EXCEPT !.pc = "login", !.clicked = "logout"]

\* the access token reaches its expiry
TokenExpires ==
    /\ oauth.pc \in {"login", "app"}
    /\ oauth.oauth_credentials # <<>>
    /\ ~oauth.oauth_credentials[1].expired
    /\ oauth' = [oauth EXCEPT !.oauth_credentials[1].expired = TRUE]

---------------------------------------------------------------------------
(* Specifications                                                          *)

NormIdle == norm_input = None /\ norm_output = <<>>
ExtractIdle == ex_payload = <<>> /\ ex_response = <<>> /\ ex_result = <<>>
RaceIdle == workers = [i \in Workers |-> IdleWorker] /\ last_writer = 0
BatchIdle == batch = NoBatch
ApiIdle == api = NoApi
DriveIdle == drive = NoDrive
ConfigIdle == config = NoConfig
SeenNothing == seen = {}
UiIdle == ui = NoUi
OAuthIdle == oauth = NoOAuth
AppIdle == UiIdle /\ OAuthIdle
SideIdle == RaceIdle /\ SeenNothing /\ BatchIdle /\ ApiIdle /\ DriveIdle /\ ConfigIdle /\ AppIdle

\* the engine serving calls one after the other
Init == InitEngine /\ NormIdle /\ ExtractIdle /\ SideIdle

Next ==
    \/ Call(EngineArgs) /\ UNCHANGED <<normVars, extractVars, sideVars>>
    \/ OpenFails(EngineArgs) /\ UNCHANGED <<normVars, extractVars, sideVars>>
    \/ InvokeModel /\ UNCHANGED <<normVars, extractVars, sideVars>>
    \/ ModelRaises /\ UNCHANGED <<normVars, extractVars, sideVars>>
    \/ HandleResponse /\ UNCHANGED <<normVars, extractVars, sideVars>>
    \/ Finish /\ UNCHANGED <<normVars, extractVars, sideVars>>

Spec == Init /\ [][Next]_vars

\* the calls made around a change of settings.storage_mode
StorageArgs ==
    {[garment_path |-> <<f_saia_jpg>>, environment |-> t_beach, activity |-> t_walking,
      garment_number |-> n_42, garment_type |-> t, position |-> None,
      conjunto_pieces |-> p, model_attributes |-> NoDict, feedback |-> None,
      templates |-> FullTemplates] :
        t \in {W_Saia, W_Conjunto},
        p \in {NoDict, Pieces(W_Camisa, W_Calca_cedilla, None)}}

\* the engine serving calls while its settings object is changed
NextStorage ==
    \/ Call(StorageArgs) /\ UNCHANGED <<normVars, extractVars, sideVars>>
    \/ OpenFails(StorageArgs) /\ UNCHANGED <<normVars, extractVars, sideVars>>
    \/ InvokeModel /\ UNCHANGED <<normVars, extractVars, sideVars>>
    \/ ModelRaises /\ UNCHANGED <<normVars, extractVars, sideVars>>
    \/ HandleResponse /\ UNCHANGED <<normVars, extractVars, sideVars>>
    \/ Finish /\ UNCHANGED <<normVars, extractVars, sideVars>>
    \/ SetStorageMode /\ UNCHANGED <<normVars, extractVars, sideVars>>

SpecStorage == Init /\ [][NextStorage]_vars

\* a template document without any of the engine's sections
NoSections == <<"# Prompt templates", "\n">>

\* calls made with complete and with incomplete template documents
TemplateArgs ==
    {[garment_path |-> <<g>>, environment |-> t_beach, activity |-> t_walking,
      garment_number |-> n_42, garment_type |-> t, position |-> x[1],
      conjunto_pieces |-> x[2], model_attributes |-> x[3], feedback |-> x[4],
      templates |-> doc] :
        g \in {f_saia_jpg, f_party_jpg},
        t \in {W_Saia, W_Conjunto, W_Vestido_com_Modelo},
        x \in {<<None, NoDict, NoDict, t_longer>>,
               <<W_Frente, Pieces(W_Camisa, W_Calca_cedilla, None), SomeAttributes, None>>},
        doc \in {FullTemplates, PartialTemplates, NoSections}}

\* the engine serving calls whatever the template document holds
NextTemplate ==
    \/ Call(TemplateArgs) /\ UNCHANGED <<normVars, extractVars, sideVars>>
    \/ InvokeModel /\ UNCHANGED <<normVars, extractVars, sideVars>>
    \/ ModelRaises /\ UNCHANGED <<normVars, extractVars, sideVars>>
    \/ HandleResponse /\ UNCHANGED <<normVars, extractVars, sideVars>>
    \/ Finish /\ UNCHANGED <<normVars, extractVars, sideVars>>

SpecTemplate == Init /\ [][NextTemplate]_vars

\* options of the selectboxes of the model's traits ("" is the unset option),
\* some of each box
selectbox ==
    ("height"      :> {<<>>, <<"B", "a", "i", "x", "a">>, <<"M", "é", "d", "i", "a">>}) @@
    ("body_type"   :> {<<>>, <<"E", "s", "g", "u", "i", "a">>, <<"M", "é", "d", "i", "a">>, <<"P", "l", "u", "s", " ", "S", "i", "z", "e">>}) @@
    ("skin_tone"   :> {<<>>, <<"P", "e", "l", "e", " ", "M", "é", "d", "i", "a">>}) @@
    ("hair_length" :> {<<>>, <<"M", "é", "d", "i", "o">>}) @@
    ("hair_color"  :> {<<>>, <<"P", "r", "e", "t", "o">>}) @@
    ("hair_style"  :> {<<>>, <<"C", "o", "q", "u", "e">>})

trait_keys == <<"height", "body_type", "skin_tone", "hair_length", "hair_color", "hair_style">>

\* the model_attrs dict the UI builds before it filters it: every key, in order
ModelAttrs ==
    {[i \in 1..Len(trait_keys) |-> <<trait_keys[i], choice[i]>>] :
        choice \in {c \in [1..Len(trait_keys) -> UNION {selectbox[k] : k \in DOMAIN selectbox}] :
                       \A i \in 1..Len(trait_keys) : c[i] \in selectbox[trait_keys[i]]}}

\* {k: v for k, v in model_attrs.items() if v}, None when nothing is left
FilterAttrs(model_attrs) ==
    SelectSeq(model_attrs, LAMBDA kv : kv[2] # <<>>)

\* the calls the UI makes with the traits selected
AttributeArgs ==
    {[garment_path |-> <<f_saia_jpg>>, environment |-> t_beach, activity |-> t_walking,
      garment_number |-> n_42, garment_type |-> W_Saia, position |-> None,
      conjunto_pieces |-> NoDict, model_attributes |-> FilterAttrs(m), feedback |-> None,
      templates |-> FullTemplates] : m \in ModelAttrs}

NextAttributes == Call(AttributeArgs) /\ UNCHANGED <<normVars, extractVars, sideVars>>

SpecAttributes == Init /\ [][NextAttributes]_vars

\* the calls whose observations are compared: environment and activity given
StatelessArgs ==
    {[garment_path |-> <<f_saia_jpg>>, environment |-> t_beach, activity |-> t_walking,
      garment_number |-> x[1], garment_type |-> x[2], position |-> x[3],
      conjunto_pieces |-> x[4], model_attributes |-> NoDict, feedback |-> x[5],
      templates |-> FullTemplates] :
        x \in {<<n_42, W_Saia, None, NoDict, None>>,
               <<n_42, W_Saia, W_Frente, NoDict, t_longer>>,
               <<n_42, W_Conjunto, None, Pieces(W_Camisa, W_Calca_cedilla, None), None>>,
               <<None, W_Saia, None, NoDict, None>>}}

\* what a caller can observe of a call: the prompt sent, the value returned
Observation(a, prompt, value) == [args |-> a, prompt |-> prompt, value |-> value]

StatelessRest == <<normVars, extractVars, raceVars, batch, api, drive, config, appVars>>

\* the engine serving calls one after the other, each observed
NextStateless ==
    \/ /\ Call(StatelessArgs)
       /\ seen' = seen \cup {Observation(args', locals'.final_prompt, <<>>)}
       /\ UNCHANGED StatelessRest
    \/ OpenFails(StatelessArgs) /\ UNCHANGED <<seen, StatelessRest>>
    \/ InvokeModel /\ UNCHANGED <<seen, StatelessRest>>
    \/ ModelRaises /\ UNCHANGED <<seen, StatelessRest>>
    \/ /\ HandleResponse
       /\ seen' = IF pc' = "returned"
                  THEN seen \cup {Observation(args, locals.final_prompt, outcome'.value)}
                  ELSE seen
       /\ UNCHANGED StatelessRest
    \/ Finish /\ UNCHANGED <<seen, StatelessRest>>

SpecStateless == Init /\ [][NextStateless]_vars

\* one run of the batch
BatchRest == <<pc, args, locals, response, generated_pil, model_calls, outcome, storage_mode, configured,
               normVars, extractVars, raceVars, seen, api, drive, config, appVars>>

InitBatchRun ==
    /\ InitEngine /\ NormIdle /\ ExtractIdle /\ RaceIdle /\ SeenNothing
    /\ ApiIdle /\ DriveIdle /\ ConfigIdle /\ AppIdle
    /\ InitBatch

NextBatch ==
    \/ ProcessAllStart /\ UNCHANGED BatchRest
    \/ ProcessOne /\ UNCHANGED BatchRest

SpecBatch == InitBatchRun /\ [][NextBatch]_vars

\* Settings made in an environment that changes
ConfigRest == <<engineVars, normVars, extractVars, raceVars, seen, batch, api, drive, appVars>>

InitConfigRun ==
    /\ InitEngine /\ storage_mode = "local" /\ NormIdle /\ ExtractIdle /\ RaceIdle /\ SeenNothing
    /\ BatchIdle /\ ApiIdle /\ DriveIdle /\ AppIdle
    /\ InitConfig

NextConfig ==
    \/ Construct /\ UNCHANGED ConfigRest
    \/ get_settings /\ UNCHANGED ConfigRest
    \/ SetEnv /\ UNCHANGED ConfigRest

SpecConfig == InitConfigRun /\ [][NextConfig]_vars

\* one request to POST /generate
ApiRest == <<pc, args, locals, response, generated_pil, model_calls, outcome, storage_mode, configured,
             normVars, extractVars, raceVars, seen, batch, drive, config, appVars>>

InitApiRun ==
    /\ InitEngine /\ NormIdle /\ ExtractIdle /\ RaceIdle /\ SeenNothing
    /\ BatchIdle /\ DriveIdle /\ ConfigIdle /\ AppIdle
    /\ InitApi

NextApi ==
    \/ VerifyToken /\ UNCHANGED ApiRest
    \/ Generate /\ UNCHANGED ApiRest

SpecApi == InitApiRun /\ [][NextApi]_vars

\* sequential uploads of one base filename
DriveRest == <<engineVars, normVars, extractVars, raceVars, seen, batch, api, config, appVars>>

InitDriveRun ==
    /\ InitEngine /\ NormIdle /\ ExtractIdle /\ RaceIdle /\ SeenNothing
    /\ BatchIdle /\ ApiIdle /\ ConfigIdle /\ AppIdle
    /\ InitDrive

NextDrive ==
    \/ upload_file /\ UNCHANGED DriveRest
    \/ DayPasses /\ UNCHANGED DriveRest

SpecDrive == InitDriveRun /\ [][NextDrive]_vars

\* one session of the Streamlit application
UiRest == <<engineVars, normVars, extractVars, raceVars, seen, batch, api, drive, config, oauth>>

InitUiRun ==
    /\ InitEngine /\ NormIdle /\ ExtractIdle /\ RaceIdle /\ SeenNothing
    /\ BatchIdle /\ ApiIdle /\ DriveIdle /\ ConfigIdle /\ OAuthIdle
    /\ storage_mode = "local"
    /\ InitUi

NextUi ==
    \/ GenerateClick /\ UNCHANGED UiRest
    \/ RegenerateClick /\ UNCHANGED UiRest
    \/ SaveToDriveClick /\ UNCHANGED UiRest

SpecUi == InitUiRun /\ [][NextUi]_vars

OAuthRest == <<engineVars, normVars, extractVars, raceVars, seen, batch, api, drive, config, ui>>

InitOAuthRun ==
    /\ InitEngine /\ NormIdle /\ ExtractIdle /\ RaceIdle /\ SeenNothing
    /\ BatchIdle /\ ApiIdle /\ DriveIdle /\ ConfigIdle /\ UiIdle
    /\ InitOAuth

NextOAuth ==
    \/ Rerun /\ UNCHANGED OAuthRest
    \/ GenerateLinkClick /\ UNCHANGED OAuthRest
    \/ ConfirmClick /\ UNCHANGED OAuthRest
    \/ CancelClick /\ UNCHANGED OAuthRest
    \/ LogoutClick /\ UNCHANGED OAuthRest
    \/ TokenExpires /\ UNCHANGED OAuthRest

SpecOAuth == InitOAuthRun /\ [][NextOAuth]_vars

\* invocations running at the same time
RaceRest == <<pc, args, locals, response, generated_pil, model_calls, outcome, storage_mode, configured,
              normVars, extractVars, seen, batch, api, drive, config, appVars>>

NextRace ==
    \/ \E i \in Workers : WorkerGenerate(i) /\ UNCHANGED RaceRest
    \/ \E i \in Workers : WorkerUpload(i) /\ UNCHANGED RaceRest
    \/ \E i \in Workers : WorkerOpen(i) /\ UNCHANGED RaceRest
    \/ \E i \in Workers : WorkerWrite(i) /\ UNCHANGED RaceRest
    \/ \E i \in Workers : WorkerClose(i) /\ UNCHANGED RaceRest

SpecRace == Init /\ [][NextRace]_vars

\* the arguments prompt assembly is examined on
PromptArgs ==
    {[garment_path |-> g, environment |-> e, activity |-> act,
      garment_number |-> n_42, garment_type |-> t, position |-> pos,
      conjunto_pieces |-> p, model_attributes |-> m, feedback |-> fb,
      templates |-> doc] :
        g \in {<<f_saia_jpg>>, <<f_party_jpg>>, <<None, f_party_jpg>>, <<w_conjunto>>},
        e \in {None, <<>>, t_beach},
        act \in {None, t_walking},
        t \in {None, W_Saia, W_Conjunto, W_CONJUNTO, W_Vestido_com_Modelo},
        pos \in {None, W_Frente, w_costas, W_Front, w_back, W_Ambos, W_Lado},
        p \in {NoDict, Pieces(W_Camisa, W_Calca_cedilla, None),
               Pieces(W_Camisa, W_Calca_cedilla, W_Veste)},
        m \in {NoDict, SomeAttributes},
        fb \in {None, t_longer},
        doc \in {FullTemplates, PartialTemplates}}

\* prompt assembly alone, on a wider range of arguments
NextPrompt == Call(PromptArgs) /\ UNCHANGED <<normVars, extractVars, sideVars>>

SpecPrompt == Init /\ [][NextPrompt]_vars

\* texts of a caller that hold placeholder text themselves
e_with_activity == <<"a beach for ", "{{activity}}">>
e_with_garment_type == <<"a shop selling the ", "{{garment_type}}">>
e_with_environment == <<"not ", "{{environment}}">>
a_with_environment == <<"walking in ", "{{environment}}">>
a_with_garment_type == <<"showing the ", "{{garment_type}}">>
fb_with_placeholders == <<"drop ", "{{environment}}", " and ", "{{activity}}", " and ", "{{garment_type}}">>

SubstitutionArgs ==
    {[garment_path |-> g, environment |-> e, activity |-> act,
      garment_number |-> n_42, garment_type |-> t, position |-> None,
      conjunto_pieces |-> NoDict, model_attributes |-> NoDict, feedback |-> fb,
      templates |-> doc] :
        g \in {<<f_saia_jpg>>, <<f_party_jpg>>},
        e \in {None, t_beach, e_with_activity, e_with_garment_type, e_with_environment},
        act \in {None, t_walking, a_with_environment, a_with_garment_type},
        t \in {None, W_Saia, W_Vestido_com_Modelo},
        fb \in {None, t_longer, fb_with_placeholders},
        doc \in {FullTemplates, PartialTemplates}}

\* prompt assembly on texts that hold placeholder text
NextSubstitution == Call(SubstitutionArgs) /\ UNCHANGED <<normVars, extractVars, sideVars>>

SpecSubstitution == Init /\ [][NextSubstitution]_vars

\* the normalizer alone
InitNorm == InitEngine /\ storage_mode = "local" /\ InitNormalize /\ ExtractIdle /\ SideIdle

NextNorm == Normalize /\ UNCHANGED <<engineVars, extractVars, sideVars>>

SpecNormalize == InitNorm /\ [][NextNorm]_vars

\* the extraction alone
InitEx == InitEngine /\ storage_mode = "local" /\ NormIdle /\ InitExtract /\ SideIdle

NextEx == \E e \in Encodings : Extract(e) /\ UNCHANGED <<engineVars, normVars, sideVars>>

SpecExtract == InitEx /\ [][NextEx]_vars

---------------------------------------------------------------------------
(* Properties                                                              *)

cabide_42_saia_png == <<"c", "a", "b", "i", "d", "e", "_", "4", "2", "_", "s", "a", "i", "a", ".", "p", "n", "g">>
cabide_conjunto_42_camisa_42_calca_png ==
    <<"c", "a", "b", "i", "d", "e", "_", "c", "o", "n", "j", "u", "n", "t", "o", "_", "4", "2", "-",
      "c", "a", "m", "i", "s", "a", "-", "4", "2", "-", "c", "a", "l", "c", "a", ".", "p", "n", "g">>
cabide_conjunto_42_camisa_42_calca_42_veste_png ==
    <<"c", "a", "b", "i", "d", "e", "_", "c", "o", "n", "j", "u", "n", "t", "o", "_", "4", "2", "-",
      "c", "a", "m", "i", "s", "a", "-", "4", "2", "-", "c", "a", "l", "c", "a", "-", "4", "2", "-",
      "v", "e", "s", "t", "e", ".", "p", "n", "g">>

\* the prompt has a position hint: one of the two literals that open one
HasPositionHint(prompt) ==
    \E i \in 1..Len(prompt) :
        prompt[i] \in {"\n\nNote: Image 1 shows the front view, Image 2 shows the back view.",
                       "\n\nNote: The image shows the "}

FrontNote == <<"\n\nNote: The image shows the ", "front view", " of the garment.">>
BackNote == <<"\n\nNote: The image shows the ", "back view", " of the garment.">>

\* the call in progress saved generated_pil under name
SavedUnder(name) ==
    IF storage_mode = "prod"
    THEN [name |-> <<"generated/">> \o name, image |-> generated_pil] \in bucket
    ELSE [name |-> name, image |-> generated_pil] \in output_dir

\* the first candidate carries no image: no legacy image attribute, and no
\* parts or no part with inline data
NoImageCandidate(resp) ==
    /\ resp.answered
    /\ resp.candidates # <<>>
    /\ ~resp.candidates[1].has_image
    /\ \A i \in 1..Len(resp.candidates[1].parts) : ~resp.candidates[1].parts[i].inline

\* C1: a request that lacks garment_number or garment_type is rejected before
\* the model is invoked: the model is never called for such a request.
C1_MissingMetadataNeverReachesModel ==
    MissingMetadata(args) => model_calls = 0

\* C2: when garment_type is conjunto (any case) and pieces are supplied, the
\* prompt has the CONJUNTO COMPOSITION hint naming piece 1, piece 2 and, when
\* supplied, piece 3, and has no position hint, whatever the position and the
\* number of images.
C2_ConjuntoHintWithoutPositionHint ==
    (pc = "prompted" /\ IsConjunto(args.garment_type) /\ HasPieces(args.conjunto_pieces)) =>
        /\ Contains(locals.final_prompt,
                    <<"\n\nCONJUNTO COMPOSITION: Image 1 = ">> \o args.conjunto_pieces.piece1_type
                    \o <<", Image 2 = ">> \o args.conjunto_pieces.piece2_type)
        /\ Truthy(args.conjunto_pieces.piece3_type) =>
               Contains(locals.final_prompt,
                        <<", Image 3 = ">> \o args.conjunto_pieces.piece3_type)
        /\ ~Truthy(args.conjunto_pieces.piece3_type) =>
               ~Contains(locals.final_prompt, <<", Image 3 = ">>)
        /\ ~HasPositionHint(locals.final_prompt)

C2_Witness ==
    /\ pc = "prompted"
    /\ args.garment_type = W_CONJUNTO
    /\ args.conjunto_pieces = Pieces(W_Camisa, W_Calca_cedilla, W_Veste)
    /\ args.position = W_Ambos
    /\ locals.n_images = 2
    /\ Contains(locals.final_prompt, <<", Image 3 = ">> \o W_Veste)

\* C3: for a non-conjunto call with exactly one image, position "frente" or
\* "front" (any case) puts the front-view note into the prompt, "costas" or
\* "back" the back-view note, and an absent or unrecognized position no
\* position note.
C3_PositionNoteOfOneImage ==
    (pc = "prompted" /\ ~IsConjunto(args.garment_type) /\ locals.n_images = 1) =>
        LET position == IF Truthy(args.position) THEN Lower(args.position) ELSE <<>>
        IN  /\ position \in {w_frente, w_front} => Contains(locals.final_prompt, FrontNote)
            /\ position \in {w_costas, w_back} => Contains(locals.final_prompt, BackNote)
            /\ position \notin {w_frente, w_front, w_costas, w_back} =>
                   ~HasPositionHint(locals.final_prompt)

\* C4: when the name of the first input image contains "vestidodefesta" (any
\* case) and no environment is given, the environment put into the prompt is
\* "a gala ballroom" and the activity "holding a champagne glass", whatever the
\* pools hold and whatever was drawn; with an environment given, the override
\* does not apply.
C4_PartyDressOverride ==
    (pc = "prompted" /\ Contains(Lower(RefFilename(args.garment_path)), w_vestidodefesta)) =>
        LET raw == _load_template(TemplateKey(args), args.templates)
        IN  IF ~Truthy(args.environment)
            THEN /\ locals.final_env = <<"a gala ballroom">>
                 /\ locals.final_act = <<"holding a champagne glass">>
                 /\ Contains(raw, <<"{{environment}}">>) =>
                        Contains(locals.final_prompt, <<"a gala ballroom">>)
                 /\ Contains(raw, <<"{{activity}}">>) =>
                        Contains(locals.final_prompt, <<"holding a champagne glass">>)
                 /\ \A i \in 1..Len(environments) :
                        ~Contains(locals.final_prompt, <<environments[i]>>)
                 /\ \A i \in 1..Len(activities) :
                        ~Contains(locals.final_prompt, <<activities[i]>>)
            ELSE /\ locals.final_env = args.environment
                 /\ locals.final_act # <<"holding a champagne glass">>
                 /\ ~Contains(locals.final_prompt, <<"a gala ballroom">>)

C4_Witness ==
    /\ pc = "prompted"
    /\ args.garment_path = <<f_party_jpg>>
    /\ args.environment = None
    /\ args.activity = t_walking
    /\ args.garment_type = W_Saia
    /\ Contains(locals.final_prompt,
                <<"Party photo in ", "a gala ballroom", ", ", "holding a champagne glass">>)

\* C5: a successful call for garment_number n and a garment_type t that is no
\* conjunto with pieces saves its result under exactly
\* cabide_<n>_<normalize(t)>.png (cabide_42_saia.png for "42" and "Saia"),
\* whatever the environment, activity, position and feedback and whatever
\* calls came before.
C5_OrdinaryFilename ==
    (pc = "returned" /\ ~(IsConjunto(args.garment_type) /\ HasPieces(args.conjunto_pieces))) =>
        LET name == x_cabide_ \o args.garment_number \o <<"_">>
                    \o _normalize_garment_type(args.garment_type) \o x_png
        IN  /\ SavedUnder(name)
            /\ outcome = Returned(SavedAt(storage_mode, name))
            /\ (args.garment_number = n_42 /\ args.garment_type = W_Saia) =>
                   name = cabide_42_saia_png

C5_Witness ==
    /\ pc = "returned"
    /\ args.garment_number = n_42
    /\ args.garment_type = W_Saia
    /\ args.feedback = t_longer
    /\ storage_mode = "local"
    /\ [name |-> cabide_42_saia_png, image |-> ImageB] \in output_dir
    /\ Cardinality(output_dir) > 1

\* C6: a successful call for a conjunto with pieces saves its result under
\* cabide_conjunto_<n>-<normalize(piece1)>-<n>-<normalize(piece2)>.png, with
\* -<n>-<normalize(piece3)> before .png exactly when piece3 is supplied.
C6_ConjuntoFilename ==
    (pc = "returned" /\ IsConjunto(args.garment_type) /\ HasPieces(args.conjunto_pieces)) =>
        LET n == args.garment_number
            p == args.conjunto_pieces
            name == x_cabide_conjunto_ \o n \o <<"-">> \o _normalize_garment_type(p.piece1_type)
                    \o <<"-">> \o n \o <<"-">> \o _normalize_garment_type(p.piece2_type)
                    \o (IF Truthy(p.piece3_type)
                        THEN <<"-">> \o n \o <<"-">> \o _normalize_garment_type(p.piece3_type)
                        ELSE <<>>)
                    \o x_png
        IN  /\ SavedUnder(name)
            /\ outcome = Returned(SavedAt(storage_mode, name))
            /\ (n = n_42 /\ p = Pieces(W_Camisa, W_Calca_cedilla, None)) =>
                   name = cabide_conjunto_42_camisa_42_calca_png
            /\ (n = n_42 /\ p = Pieces(W_Camisa, W_Calca_cedilla, W_Veste)) =>
                   name = cabide_conjunto_42_camisa_42_calca_42_veste_png

C6_Witness ==
    /\ pc = "returned"
    /\ args.garment_type = W_Conjunto
    /\ args.conjunto_pieces = Pieces(W_Camisa, W_Calca_cedilla, W_Veste)
    /\ storage_mode = "prod"
    /\ [name |-> <<"generated/">> \o cabide_conjunto_42_camisa_42_calca_42_veste_png,
        image |-> ImageA] \in bucket
    /\ \E f \in bucket : f.name = <<"generated/">> \o cabide_conjunto_42_camisa_42_calca_png

\* C7: normalization is idempotent on the table: for every key k of
\* TYPE_NORMALIZATION, normalizing the normalized k gives the normalized k.
C7_NormalizationIdempotentOnKeys ==
    norm_input \in DOMAIN TYPE_NORMALIZATION =>
        \A i \in 2..Len(norm_output) : norm_output[i] = norm_output[1]

C7_Witness ==
    /\ norm_input = w_pantalon
    /\ Len(norm_output) >= 2
    /\ norm_output[1] = w_calca
    /\ norm_output[2] = w_calca

\* C8: a response with no candidates ends the call in the "no candidates"
\* error, raised to the caller, with the model invoked exactly once (no
\* retry) and no output image saved.
C8_NoCandidatesIsTerminal ==
    [][/\ (pc = "responded" /\ response.candidates = <<>>) =>
              /\ pc' = "raised"
              /\ outcome' = Raised("RuntimeError",
                                   "Gemini returned no candidates. Response may have been blocked.")
              /\ model_calls = 1 /\ model_calls' = 1
              /\ output_dir' = output_dir /\ bucket' = bucket
       /\ (pc = "raised" /\ response = NoCandidates) =>
              /\ pc' = "idle"
              /\ output_dir' = output_dir /\ bucket' = bucket]_vars

C8_Witness ==
    /\ pc = "raised"
    /\ response = NoCandidates
    /\ model_calls = 1
    /\ outcome.exc = "RuntimeError"
    /\ output_dir # {}

\* C9: a first candidate without an extractable image (no legacy image
\* attribute, and no content parts or no part with inline data) ends the call
\* in the "no image returned" error, raised to the caller, without a retry and
\* without writing or overwriting an output file.
C9_NoImageIsTerminal ==
    [][/\ (pc = "responded" /\ NoImageCandidate(response)) =>
              /\ pc' = "raised"
              /\ outcome' = Raised("RuntimeError", "Gemini did not return an image.")
              /\ model_calls = 1 /\ model_calls' = 1
              /\ output_dir' = output_dir /\ bucket' = bucket
       /\ (pc = "raised" /\ NoImageCandidate(response)) =>
              /\ pc' = "idle"
              /\ output_dir' = output_dir /\ bucket' = bucket]_vars

C9_Witness ==
    /\ pc = "raised"
    /\ response = PartsResponse(<<TextPart>>)
    /\ model_calls = 1
    /\ outcome = Raised("RuntimeError", "Gemini did not return an image.")
    /\ [name |-> <<"generated/">> \o cabide_42_saia_png, image |-> ImageA] \in bucket

\* C10: the same payload carried as raw bytes, as a base64 string or as a
\* byte-like object in the first part with inline data is extracted to the
\* same image content.
C10_ExtractionIsEncodingIndependent ==
    \A e1 \in DOMAIN ex_result, e2 \in DOMAIN ex_result :
        (ex_result[e1].done /\ ex_result[e2].done) =>
            /\ ex_result[e1] = ex_result[e2]
            /\ ex_result[e1].ok => ex_result[e1].image = ex_payload

C10_Witness ==
    /\ DOMAIN ex_result = Encodings
    /\ \A e \in Encodings : ex_result[e].done /\ ex_result[e].ok
    /\ Len(ex_payload) = 2
    /\ ex_response["str"].candidates[1].parts[1].inline = FALSE
    /\ ex_response["str"].candidates[1].parts[2].data = <<105, 85, 48, 61>>

\* C11: the persistence target is fixed when the engine is constructed: a call
\* whose image was extracted and whose metadata is complete saves it in the
\* backend storage_mode selected at construction, whatever value
\* settings.storage_mode has been given since.
C11_SaveUsesConstructedBackend ==
    (pc \in {"returned", "raised"} /\ generated_pil # <<>> /\ ~MissingMetadata(args)) =>
        /\ pc = "returned"
        /\ outcome = Returned(SavedAt(configured, OutputFilename(args)))
        /\ IF configured = "prod"
           THEN [name |-> <<"generated/">> \o OutputFilename(args), image |-> generated_pil] \in bucket
           ELSE [name |-> OutputFilename(args), image |-> generated_pil] \in output_dir

\* the file or blob an invocation saved to holds image
Holds(i, image) ==
    IF storage_mode = "prod"
    THEN [name |-> <<"generated/">> \o OutputFilename(workers[i].args), image |-> image] \in bucket
    ELSE [name |-> OutputFilename(workers[i].args), image |-> image] \in output_dir

\* C12: once the concurrent invocations have finished, an invocation whose
\* output filename no other invocation used finds its own result under it,
\* and a filename two invocations both wrote holds the result of the one
\* that wrote last.
C12_LastWriterWins ==
    (\A i \in Workers : workers[i].pc = "done") =>
        \A i \in Workers :
            IF \A j \in Workers \ {i} :
                   OutputFilename(workers[j].args) # OutputFilename(workers[i].args)
            THEN Holds(i, workers[i].image)
            ELSE Holds(i, workers[last_writer].image)

\* C12, amended: an invocation whose filename no other used finds its own
\* result under it.  Under a filename two invocations both wrote: in prod mode
\* the blob is the result uploaded last; in local mode the file is the result
\* written last when neither had the file open while the other wrote, and
\* otherwise every byte of it is a byte one of the two wrote at that offset,
\* or a zero where the file was emptied under a writer.
C12_LastWriterWinsUnlessInterleaved ==
    (\A i \in Workers : workers[i].pc = "done") =>
        \A i \in Workers :
            LET same == {j \in Workers :
                            OutputFilename(workers[j].args) = OutputFilename(workers[i].args)}
                content == FileContent(output_dir, OutputFilename(workers[i].args))
            IN  IF same = {i} THEN Holds(i, workers[i].image)
                ELSE IF storage_mode = "prod" \/ \A j \in same : workers[j].alone
                THEN Holds(i, workers[last_writer].image)
                ELSE /\ \E j \in same : Len(content) = Len(workers[j].image)
                     /\ \A k \in 1..Len(content) :
                            \/ content[k] = 0
                            \/ \E j \in same : k <= Len(workers[j].image) /\ content[k] = workers[j].image[k]

\* the two invocations wrote the same file at the same time and it holds a
\* mix of their results
C12_Witness ==
    /\ \A i \in Workers : workers[i].pc = "done" /\ ~workers[i].alone
    /\ workers[1].image = <<PngMagic, 1, 2>>
    /\ workers[2].image = <<PngMagic, 3, 4>>
    /\ [name |-> cabide_42_saia_png, image |-> <<PngMagic, 3, 2>>] \in output_dir

\* C13: the engine is stateless across requests: two calls with the same
\* arguments (environment and activity given) send the same prompt, and when
\* both return, return the same output name, whatever calls were made on the
\* engine between and before them.
C13_CallsAreIndependent ==
    \A o1 \in seen, o2 \in seen :
        (o1.args = o2.args /\ Truthy(o1.args.environment) /\ Truthy(o1.args.activity)) =>
            /\ o1.prompt = o2.prompt
            /\ (o1.value # <<>> /\ o2.value # <<>>) => o1.value = o2.value

\* a call is at the model again with arguments that returned before, after a
\* call that failed and a call that saved another file
C13_Witness ==
    /\ pc = "responded"
    /\ args.garment_number = n_42 /\ args.garment_type = W_Saia /\ args.feedback = t_longer
    /\ \E o \in seen : o.args = args /\ o.value # <<>>
    /\ \E o \in seen : o.args.garment_number = None
    /\ Cardinality(output_dir \cup bucket) = 2

\* the files of the listing whose name gives a number and a known type
WithMetadata(name) == name \in {f_saia_jpg, f_party_jpg}

\* C14: process_all attempts every supported file whose number and type can
\* be extracted exactly once and in order, whatever the earlier files did
\* (an exception is logged and the next file is taken); files with missing
\* metadata are skipped without a call of the engine; unsupported files are
\* not looked at; and the loop ends after the last file: every iteration
\* takes the next file or, at the last one, ends the loop, there is a file
\* to take in every iteration and no step after the end.
C14_BatchKeepsGoing ==
    /\ [](batch.pc \in {"start", "loop", "done"})
    /\ [](\A i \in 1..Len(batch.attempts) : WithMetadata(batch.attempts[i]))
    /\ [](batch.pc = "done" =>
             /\ batch.attempts = SelectSeq(batch.listing, WithMetadata)
             /\ Len(batch.log) = Len(batch.files)
             /\ \A i \in 1..Len(batch.log) :
                    /\ batch.log[i].file = batch.files[i]
                    /\ batch.log[i].what = "skipped" <=> ~WithMetadata(batch.files[i]))
    /\ [](batch.pc = "loop" => batch.index \in 1..Len(batch.files))
    /\ [][/\ batch.pc # "done"
          /\ batch.pc = "loop" =>
                 IF batch.index = Len(batch.files) THEN batch'.pc = "done"
                 ELSE batch'.pc = "loop" /\ batch'.index = batch.index + 1]_vars

\* the batch is over: the first file raised, the second was skipped, the
\* third was done
C14_Witness ==
    /\ batch.pc = "done"
    /\ batch.listing = <<f_party_jpg, f_camisa_png, f_saia_jpg>>
    /\ batch.log = <<LogEntry(f_party_jpg, "error"), LogEntry(f_camisa_png, "skipped"),
                     LogEntry(f_saia_jpg, "done")>>
    /\ batch.attempts = <<f_party_jpg, f_saia_jpg>>

\* C15: Settings() called with STORAGE_MODE set to a value other than "local"
\* and "prod" (the other variables valid) succeeds, with storage_mode "local".
C15_InvalidModeForcedToLocal ==
    (/\ config.pc = "called"
     /\ config.instance = NoSettings
     /\ config.env.GEMINI_API_KEY # None
     /\ validate_json(config.env.GCP_SERVICE_ACCOUNT_JSON).ok
     /\ config.env.STORAGE_MODE \notin {None, v_local, v_prod}) =>
        /\ config.last.ok
        /\ config.last.settings.storage_mode = v_local

\* the request has what the endpoint asks for: images with supported
\* names, and a number and a type given or readable from the first name
CompleteRequest(r) ==
    /\ r.files # <<>>
    /\ \A i \in 1..Len(r.files) :
           r.files[i].is_image /\ Lower(PathSuffix(r.files[i].filename)) \in supported
    /\ r.garment_number = n_42 \/ r.files[1].filename \in {f_saia_jpg, f_saia_heic, f_conjunto_jpg}
    /\ Truthy(r.garment_type) \/ r.files[1].filename \in {f_saia_jpg, f_saia_heic, f_conjunto_jpg}

\* C16: an authenticated, complete request whose generation succeeds (the
\* model gives an image) is answered 200: with a JSON body carrying the URL
\* in prod mode, with the PNG file in local mode; never with an error.
C16_SuccessIsAnswered ==
    (/\ api.pc = "responded"
     /\ api.google = "200"
     /\ CompleteRequest(api.request)
     /\ api.event = Answer(PartsResponse(<<InlinePart("bytes", ImageA)>>))) =>
        /\ api.response.status = 200
        /\ api.response.kind = IF storage_mode = "prod" THEN "json" ELSE "file"


\* C17: POST /generate is gated by OAuth.  Temp files are written and the
\* engine is invoked only after Google's userinfo endpoint answered 200 for
\* the request's Bearer token; a missing Authorization header, a header not
\* of the form "Bearer <token>", a non-200 answer and a transport failure
\* each give a 401, with no engine invocation and no temp file.
C17_OAuthGate ==
    /\ (api.engine_calls > 0 \/ api.temp # {} \/ api.pc = "authenticated") =>
           /\ api.google = "200"
           /\ api.asked = 1
           /\ Lower(SplitWords(api.request.authorization)[1]) = w_bearer
    /\ (/\ api.pc = "responded"
        /\ \/ api.request.authorization \in {None, <<>>}
           \/ api.request.authorization \in {h_Basic_tok, h_Bearer_only, h_Bearer_two, h_token_only}
           \/ api.google \in GoogleAnswers \ {"200"}) =>
           /\ api.response.status = 401
           /\ api.engine_calls = 0
           /\ api.temp = {}
           /\ output_dir = {} /\ bucket = {}

\* a verified request wrote its upload to the temp directory
C17_Witness ==
    /\ api.pc = "responded"
    /\ api.google = "200"
    /\ api.temp # {}


\* the names a folder holds, in upload order
NamesOf(d) == [i \in 1..Len(drive.folders[d]) |-> drive.folders[d][i].name]

\* C18: Drive version suffixing never reuses a name.  After any sequence of
\* sequential uploads of one base filename (with or without an extension)
\* into one date folder, the folder's names are pairwise distinct: the base
\* filename first, then <base>_v1, <base>_v2, ... in upload order.
C18_VersionedNamesAreDistinct ==
    \A d \in 1..Len(Days) :
        /\ \A i, j \in 1..Len(NamesOf(d)) : i # j => NamesOf(d)[i] # NamesOf(d)[j]
        /\ \A i \in 1..Len(NamesOf(d)) :
               LET name_parts == RSplitDot(drive.filename)
               IN  NamesOf(d)[i] =
                       IF i = 1 THEN drive.filename
                       ELSE IF Len(name_parts) = 2 /\ name_parts[2] # <<>>
                       THEN name_parts[1] \o <<"_", "v">> \o Decimal(i - 1) \o <<".">> \o name_parts[2]
                       ELSE drive.filename \o <<"_", "v">> \o Decimal(i - 1)


\* C19: a position hint is appended only for non-conjunto garments.  For
\* every call whose garment_type is conjunto (any case), with or without
\* piece metadata, the prompt has no position hint.
C19_NoPositionHintForConjunto ==
    (pc = "prompted" /\ IsConjunto(args.garment_type)) => ~HasPositionHint(locals.final_prompt)

\* the template whose body opens the prompt, "" when none does
UsedTemplate(prompt) ==
    IF prompt = <<>> THEN ""
    ELSE IF Head(prompt) = Head(BodyQuotidien) THEN "Virtual Model Quotidien"
    ELSE IF Head(prompt) = Head(BodyParty) THEN "Virtual Model Party"
    ELSE IF Head(prompt) = Head(BodyConjunto) THEN "Virtual Model Conjunto"
    ELSE IF Head(prompt) = Head(BodyBackground) THEN "Background Replacement"
    ELSE ""

\* C20: template selection follows one fixed priority and picks exactly one
\* template per call.  An explicit category comes first (garment_type
\* conjunto gives Virtual Model Conjunto, "vestido com modelo" gives
\* Background Replacement), otherwise a reference filename containing
\* "vestidodefesta" gives Virtual Model Party, otherwise the default Virtual
\* Model Quotidien; a garment that is neither conjunto nor "vestido com
\* modelo" never receives the Conjunto or Background Replacement template.
C20_TemplatePriority ==
    (pc = "prompted" /\ args.templates = FullTemplates) =>
        LET explicit_conjunto == IsConjunto(args.garment_type)
            explicit_background == /\ Truthy(args.garment_type)
                                   /\ Lower(args.garment_type) = w_vestido_com_modelo
            used == UsedTemplate(locals.final_prompt)
        IN  /\ used = IF explicit_conjunto THEN "Virtual Model Conjunto"
                      ELSE IF explicit_background THEN "Background Replacement"
                      ELSE IF Contains(Lower(RefFilename(args.garment_path)), w_vestidodefesta)
                      THEN "Virtual Model Party"
                      ELSE "Virtual Model Quotidien"
            /\ (~explicit_conjunto /\ ~explicit_background) =>
                   used \notin {"Virtual Model Conjunto", "Background Replacement"}


\* the template document of the call has no section for the selected name
SectionMissing ==
    /\ pc \in {"prompted", "responded", "returned", "raised"}
    /\ Find(args.templates, <<"#", "#", " Template: ", TemplateName(TemplateKey(args)), "\n">>, 1) = 0

\* the hint blocks of the call, in their order
HintBlocks ==
    ConjuntoHint(args.garment_type, args.conjunto_pieces)
    \o PositionHint(ConjuntoHint(args.garment_type, args.conjunto_pieces), args.position,
                    Len(args.garment_path))
    \o ModelHint(args.model_attributes)
    \o FeedbackInstruction(args.feedback, args.conjunto_pieces)

\* C21: a missing template section degrades silently.  When the document has
\* no section for the selected template, the prompt is made of the appended
\* hint blocks only, the model is still invoked with it, and the call ends as
\* it would with the section present: it returns the saved image's location
\* when the model gives an image, and raises only what the model call or the
\* extraction raises.
C21_MissingTemplateIsSilent ==
    /\ [](SectionMissing => locals.final_prompt = HintBlocks)
    /\ [](SectionMissing /\ pc # "prompted" => model_calls = 1)
    /\ [](SectionMissing /\ pc = "raised" =>
              outcome.exc = "RuntimeError" /\ ~ExtractImage(response).ok)
    /\ [][(SectionMissing /\ pc = "responded" /\ ExtractImage(response).ok) =>
              (pc' = "returned" /\ outcome'.kind = "returned")]_vars
    /\ [][(SectionMissing /\ pc = "prompted") => model_calls' = model_calls + 1]_vars

\* a call without its template section returned a saved image, its prompt
\* being the feedback block alone
C21_Witness ==
    /\ SectionMissing
    /\ pc = "returned"
    /\ args.templates = NoSections
    /\ locals.final_prompt = FeedbackInstruction(t_longer, args.conjunto_pieces)
    /\ args.feedback = t_longer


\* the closing sentences of the two wordings of the feedback block
ConjuntoWording == <<"\nIMPORTANT: Generate ONE SINGLE PERSON wearing ALL the garment pieces shown (upper piece, lower piece, and shoes if provided) in a complete outfit. Incorporate the feedback while maintaining garment fidelity and quality.">>
GenericWording == <<"\nPlease incorporate this feedback while maintaining all other quality requirements and garment fidelity.">>

\* C22: a feedback instruction block is in the prompt exactly when feedback
\* text is supplied; it has the conjunto wording (ONE SINGLE PERSON wearing
\* ALL pieces) exactly when the garment is a conjunto, and the generic
\* wording for every other garment type.
C22_FeedbackWording ==
    pc = "prompted" =>
        /\ Contains(locals.final_prompt, <<"\n\nUSER FEEDBACK FOR IMPROVEMENT: ">>)
               <=> Truthy(args.feedback)
        /\ Truthy(args.feedback) =>
               /\ Contains(locals.final_prompt, ConjuntoWording) <=> IsConjunto(args.garment_type)
               /\ Contains(locals.final_prompt, GenericWording) <=> ~IsConjunto(args.garment_type)


\* the trait each English phrase of the hint describes
PhraseTrait ==
    [p \in {"short height", "average height", "tall height"} |-> "height"]
    @@ [p \in {"slender body type", "average body type", "plus size body type"} |-> "body_type"]
    @@ [p \in {"fair skin tone", "medium skin tone", "tan skin tone", "dark skin tone",
               "black skin tone"} |-> "skin_tone"]
    @@ [p \in {"short hair", "medium-length hair", "long hair"} |-> "hair_length"]
    @@ [p \in {"straight hair", "wavy hair", "curly hair", "coily/kinky hair"} |-> "hair_texture"]
    @@ [p \in {"blonde hair", "brown hair", "red hair", "black hair", "gray hair"} |-> "hair_color"]
    @@ [p \in {"hair down", "hair tied up", "hair in a bun", "hair in a ponytail"} |-> "hair_style"]

\* C23: the model-attributes hint translates each set trait into an English
\* phrase describing that same trait.  For every key of model_attributes
\* with a non-empty value the phrase added describes that trait (a body_type
\* value gives a body-type phrase, a height value a height phrase); unset
\* traits add nothing, and the hint is absent when no trait is set.
C23_PhrasesDescribeTheirTrait ==
    pc = "prompted" =>
        LET set == SelectSeq(args.model_attributes, LAMBDA kv : Truthy(kv[2]))
            at == Find(locals.final_prompt, <<"\n\nMODEL ATTRIBUTES: ">>, 1)
        IN  /\ (at = 0) <=> (set = <<>>)
            /\ at # 0 =>
                   /\ Len(locals.final_prompt) = at + 2 * Len(set)
                   /\ \A i \in 1..Len(set) :
                          LET phrase == locals.final_prompt[at + 2 * i - 1]
                          IN  /\ phrase \in DOMAIN PhraseTrait
                              /\ PhraseTrait[phrase] = set[i][1]


\* C24: POST /generate cleans up all its temp files.  When the request is
\* answered, with success, a validation error, a preprocessing failure or
\* an engine error, no file it created under temp_upload_dir is left.
C24_TempFilesCleaned ==
    api.pc = "responded" => api.temp = {}


\* the garment type the endpoint works with: the form field, else the type
\* read from the first filename
RequestType(r) ==
    IF Truthy(r.garment_type) \/ r.files = <<>> THEN r.garment_type
    ELSE _extract_metadata_from_filename(r.files[1].filename)[2]

\* C26: the API treats the conjunto type case-insensitively, like the
\* engine.  For every verified, complete request whose garment_type, given
\* or read from the filename, is "conjunto" in any case, the piece fields are
\* forwarded to the engine as conjunto_pieces.
C26_ConjuntoPiecesForwarded ==
    (/\ api.pc = "responded"
     /\ api.google = "200"
     /\ CompleteRequest(api.request)
     /\ IsConjunto(RequestType(api.request))) =>
        /\ api.engine_args # NoArgs
        /\ api.engine_args.conjunto_pieces =
               Pieces(api.request.piece1_type, api.request.piece2_type, api.request.piece3_type)
        /\ ApiCall(<<>>, api.request, n_42, RequestType(api.request)).conjunto_pieces =
               Pieces(api.request.piece1_type, api.request.piece2_type, api.request.piece3_type)


\* C25: the temp files kept for feedback and regeneration are cleaned up
\* when a new generation starts.  After any sequence of generations in a
\* session, only the temp files of the most recent generation are on disk.
C25_OnlyRecentTempFilesRemain ==
    ui.pc = "idle" => \A f \in ui.disk : f.name \in ui.recent

\* C27: the filename the UI offers for download and gives to the Drive
\* upload equals the canonical output filename the engine derived for the
\* same generation, for every garment type, conjunto included.
C27_DownloadNameIsEngineName ==
    /\ (ui.pc = "idle" /\ FeedbackSection) =>
           download_filename(ui.last_params) = ui.engine_filename
    /\ \A name \in ui.drive_uploads :
           FeedbackSection /\ (name = download_filename(ui.last_params) => name = ui.engine_filename)

\* C29: "Regenerate with feedback" always regenerates from the inputs of
\* the image displayed.  After any sequence of generation attempts,
\* successful or failed, and regenerations, the files named by
\* last_temp_paths hold the uploads that produced last_image_bytes and
\* belong to last_params; and a regeneration changes only last_image_bytes.
C29_RegenerationUsesDisplayedInputs ==
    /\ [](FeedbackSection =>
              /\ ReadAll(ui.disk, ui.last_temp_paths) = ui.shown_from
              /\ ReadAll(ui.disk, ui.last_temp_paths) = ui.params_from)
    /\ [][(ui'.clicks = ui.clicks + 1 /\ ui'.clicked = "regenerate") =>
              /\ ui'.last_params = ui.last_params
              /\ ui'.last_temp_paths = ui.last_temp_paths
              /\ ui'.disk = ui.disk]_vars


\* C28: a failed login leaves the user unauthenticated.  When
\* save_credentials_from_code raised, is_authenticated() answers after the
\* call what it answered before it; and when is_authenticated() is true
\* after a login, get_user_info() is the info of the logged-in user.
C28_FailedLoginLeavesUnauthenticated ==
    /\ (oauth.clicked = "confirm" /\ oauth.raised) => oauth.auth_after = oauth.auth_before
    /\ (oauth.clicked = "confirm" /\ oauth.auth_after) =>
           get_user_info(oauth) = <<UserInfo(oauth.oauth_credentials[1])>>


\* the text the call put in place of a placeholder of the template
SuppliedEnvironment == Truthy(args.environment)
SuppliedActivity == Truthy(args.activity) /\ ~PartyOverride(args)
NormalizedType ==
    IF Truthy(args.garment_type) THEN _normalize_garment_type(args.garment_type) ELSE w_garment

=============================================================================
